---- MODULE Spec2Model ----
(***************************************************************************)
(* Verification model of the job-posting ETL pipeline:                     *)
(*   - the idempotent loader       (src/etl/api/loading.py,                *)
(*                                  src/etl/scrapers/loading.py)           *)
(*   - the raw-store reconciliation (src/etl/api/extraction.py)            *)
(*   - the paginated API collection (scripts/collect_all_..., pole_emploi) *)
(*   - the run orchestrators        (run_etl.py, scripts/run_etl.py,       *)
(*                                  etl/api/france_travail_etl.py)         *)
(* Each subsystem has its own specification over the shared variables.     *)
(***************************************************************************)
EXTENDS Integers, Sequences, FiniteSets, TLC

VARIABLES
    \* ---- relational store (loader) ----
    tableExists,   \* france_travail_jobs exists
    tableCols,     \* its column names
    tablePK,       \* it carries the PRIMARY KEY(id) constraint
    rows,          \* its rows, in insertion order: [id, cols]
    jobsSchema,    \* scraper table "jobs": "absent", "url_unique" or "other"
    jobsRows,      \* its rows, in insertion order: [url, rev]
    loadLog,       \* record of the last two loader calls
    \* ---- raw stores (extraction) ----
    localFiles,    \* base names of data/raw/france_travail/*.json
    s3Keys,        \* keys under raw/france_travail/ in the bucket: [dir, name]
    tempFiles,     \* base names in data/temp/s3_downloads
    exLog,         \* record of the last extraction call
    \* ---- collector ----
    cPc,           \* "idle", "loop" (inside the page loop), "done"
    cRun,          \* the call: function, arguments, what existed at its start
    cPage,         \* the loop variable page
    cToken,        \* access_token: number of the token in use
    cRequests,     \* search_jobs calls of the run: [page, nb, token, refresh]
    cSaved,        \* saved_files
    cReturn,       \* the value returned
    \* ---- orchestrators ----
    rPc,           \* "idle", the stage about to run, "done" or "failed"
    rArgs,         \* entry point and command line
    raw_df,        \* the variable raw_df / raw_data
    transformed_df,\* the variable transformed_df / transformed_data
    rTrace,        \* stages entered, in order
    rExit,         \* exit code of the process
    rCause,         \* what went wrong during the run
    rSource,       \* where the data handed to the transformation came from
    \* ---- chunked inserts ----
    kJobs,  \* chunks of the load persisted in france_travail_jobs
    kSkills,  \* batches of relations persisted in job_skills
    kLog,  \* record of the chunked load call
    \* ---- field normalizers ----
    nFn,  \* the normalizer called
    nIn,  \* its arguments
    nOut,  \* the value it returned
    nRaised,  \* an exception left the call
    \* ---- credentials ----
    gConfig,  \* names the configuration of the run defines
    gEnviron,  \* os.environ, per name where its value comes from
    gLog,  \* record of the last call that needs credentials
    \* ---- connections of a loading run ----
    dPc,  \* position in run_loading: "idle", "start", "create", "load", "skills", "done", "returned"
    dArgs,  \* its arguments data, skip_load, skip_skills
    dConns,  \* database connections opened during the run, in order: [engine, open]
    dLog  \* which connection served the SELECT id and the INSERT; what each stage returned

dbVars == <<tableExists, tableCols, tablePK, rows, jobsSchema, jobsRows,
           loadLog>>
fsVars == <<localFiles, s3Keys, tempFiles, exLog>>
colVars == <<cPc, cRun, cPage, cToken, cRequests, cSaved, cReturn>>
runVars == <<rPc, rArgs, raw_df, transformed_df, rTrace, rExit, rCause,
            rSource>>
chunkVars == <<kJobs, kSkills, kLog>>
normVars == <<nFn, nIn, nOut, nRaised>>
credVars == <<gConfig, gEnviron, gLog>>
connVars == <<dPc, dArgs, dConns, dLog>>
vars == <<dbVars, fsVars, colVars, runVars, chunkVars, normVars, credVars, connVars>>

(***************************************************************************)
(* Bounds                                                                  *)
(***************************************************************************)
MaxBatch == 2      \* longest DataFrame handed to a loader
MaxCalls == 2      \* loader calls per behaviour
MaxLocal == 2      \* files in the local raw directory
MaxRemote == 2     \* keys in the bucket
MaxPages == 3      \* largest max_pages argument
MaxFiles == 2      \* batch files a run finds
ListPageSize == 1  \* keys one list_objects_v2 response holds
MaxChunks == 3     \* chunks of 100 rows one load holds
MaxWords == 2      \* phrases in a raw text handed to a normalizer
MaxRuns == 2       \* extract_data calls per behaviour
LongRun == 11      \* largest max_pages argument of a long collection
MaxListed == 2     \* files in a list handed to extract_jobs_to_dataframe
MaxOffers == 2     \* offers a batch file holds

(***************************************************************************)
(* Generic helpers                                                         *)
(***************************************************************************)
SeqsUpTo(S, n) == UNION {[1..k -> S] : k \in 0..n}

Range(s) == {s[i] : i \in 1..Len(s)}

(***************************************************************************)
(* Loader: data                                                            *)
(***************************************************************************)
\* posting identifiers; "test" is the id of the probe row of create_jobs_table
Ids == {"test", "j1", "j2"}

\* columns of the table declared by create_jobs_table (abridged to three of
\* the 24) and one column only a pre-existing table may have
ExpectedCols == {"id", "intitule", "source"}
LegacyCols == {"legacy"}

\* columns of a DataFrame produced by prepare_job_data_for_loading
PreparedCols == {"id", "intitule", "source"}

\* a DataFrame: its columns and the ids of its rows in order
DataFrames == [cols : {PreparedCols}, ids : SeqsUpTo(Ids, MaxBatch)]

\* schemas a table found at start-up may have
ExistingSchemas ==
    { [cols |-> ExpectedCols, pk |-> TRUE],
      [cols |-> {"id", "intitule"} \cup LegacyCols, pk |-> FALSE],
      [cols |-> {"intitule", "source"}, pk |-> FALSE] }

RowIds(rs) == {rs[i].id : i \in 1..Len(rs)}

\* df.drop_duplicates(subset=['id']): keeps the first row of every id
drop_duplicates_mut(ids) == ids
RECURSIVE drop_duplicates(_)
drop_duplicates(ids) ==
    IF Len(ids) = 0 THEN <<>>
    ELSE LET front == SubSeq(ids, 1, Len(ids) - 1)
             last == ids[Len(ids)]
         IN IF last \in Range(front) THEN drop_duplicates(front)
            ELSE Append(drop_duplicates(front), last)

\* ~filtered_df['id'].isin(existing_ids): the rows whose id is not stored yet
new_records_mut(ids, existing_ids) == ids
new_records(ids, existing_ids) ==
    SelectSeq(ids, LAMBDA x : x \notin existing_ids)

\* common_columns = [col for col in df.columns if col in table_cols]
common_columns(dfCols, tCols) == dfCols \cap tCols

\* the PRIMARY KEY(id) constraint: rejects a statement that would leave two
\* rows with one id
ViolatesPK(oldRows, newIds) ==
    \/ \E i \in 1..Len(newIds) : newIds[i] \in RowIds(oldRows)
    \/ \E i, j \in 1..Len(newIds) : i # j /\ newIds[i] = newIds[j]

\* points at which the database may raise during load_jobs_to_database
LoadFaults == {"none", "no_engine", "inspect", "select", "insert"}

(***************************************************************************)
(* load_jobs_to_database(df, engine): result [ok, ret, rows]               *)
(*   fault the point at which the database raises, if any ("no_engine":    *)
(*        get_db_connection returned None)                                 *)
(*   ok   the call left through a success return (line 273 or 302)         *)
(*   ret  the value returned                                               *)
(*   rows the table afterwards                                             *)
(***************************************************************************)
\* the table france_travail_jobs as the loader finds it
JobsTable ==
    [exists |-> tableExists, cols |-> tableCols, pk |-> tablePK, rows |-> rows]

\* to_sql writes inside one transaction: when an INSERT raises after some
\* rows were written, the table is left as it was before the call
rollback_mut(before, written) == written
rollback(before, written) == before

load_into(t, df, fault) ==
    LET failed == [ok |-> FALSE, ret |-> 0, rows |-> t.rows, warned |-> FALSE] IN
    IF Len(df.ids) = 0 THEN failed                  \* df.empty
    ELSE IF fault = "no_engine" THEN failed         \* engine is None
    ELSE
    LET df_deduplicated == drop_duplicates(df.ids)
        common == common_columns(df.cols, t.cols)
    IN
    \* the warnings about columns of one side missing on the other
    LET warned == common # df.cols
        failed_late == [failed EXCEPT !.warned = warned]
    IN
    \* inspector.get_columns raises for a missing table
    IF ~t.exists \/ fault = "inspect" THEN failed
    \* SELECT id raises for a table without the column (and filtered_df['id']
    \* raises KeyError when id is not a common column)
    ELSE IF "id" \notin common THEN failed_late
    ELSE IF fault = "select" THEN failed_late
    ELSE
    LET existing_ids == RowIds(t.rows)
        filtered == new_records(df_deduplicated, existing_ids)
        new_rows == [i \in 1..Len(filtered) |->
                        [id |-> filtered[i], cols |-> common]]
    IN
    IF Len(filtered) = 0
    THEN [ok |-> TRUE, ret |-> 0, rows |-> t.rows, warned |-> warned]
    \* to_sql runs all chunks in one transaction: an error in the last
    \* INSERT rolls back the rows written before it
    ELSE IF fault = "insert" \/ (t.pk /\ ViolatesPK(t.rows, filtered))
    THEN [failed_late EXCEPT
            !.rows = rollback(t.rows,
                              t.rows \o SubSeq(new_rows, 1, Len(new_rows) - 1))]
    ELSE [ok |-> TRUE, ret |-> Len(filtered), rows |-> t.rows \o new_rows,
          warned |-> warned]

load_jobs_to_database(df, fault) == load_into(JobsTable, df, fault)

\* create_jobs_table(engine): creates the table when absent and inserts the
\* probe row with id 'test'; ok is the value returned, t the table afterwards
CreateFaults == {"none", "no_engine", "create", "probe"}

create_jobs_table(t, fault) ==
    IF fault \in {"no_engine", "create"} THEN [ok |-> FALSE, t |-> t]
    ELSE IF t.exists THEN [ok |-> TRUE, t |-> t]
    ELSE IF fault = "probe"
         THEN [ok |-> FALSE,
               t |-> [exists |-> TRUE, cols |-> ExpectedCols, pk |-> TRUE,
                      rows |-> <<>>]]
         ELSE [ok |-> TRUE,
               t |-> [exists |-> TRUE, cols |-> ExpectedCols, pk |-> TRUE,
                      rows |-> <<[id |-> "test", cols |-> ExpectedCols]>>]]

(***************************************************************************)
(* Loader: actions                                                         *)
(***************************************************************************)
\* loadLog: n calls so far; of the last load_jobs_to_database call its batch
\* (df), outcome (ok, ret), rows added (inserted) and the ids stored before it
\* (preIds); sameAsPrev: the call before it had the same batch; prevOk: that
\* call succeeded
\* fn: the loader called; cols: the columns of the batch; warned: the column
\* warnings were logged; urls: the batch of a load_jobs_to_rds call
NoCall == [n |-> 0, df |-> <<>>, ok |-> FALSE, ret |-> 0, inserted |-> 0,
           preIds |-> {}, sameAsPrev |-> FALSE, prevOk |-> FALSE,
           fn |-> "none", cols |-> {}, warned |-> FALSE, urls |-> <<>>]

LoadJobsToDatabase(df, fault) ==
    LET r == load_jobs_to_database(df, fault) IN
    /\ loadLog.n < MaxCalls
    /\ rows' = r.rows
    /\ loadLog' = [n |-> loadLog.n + 1,
                   df |-> df.ids, ok |-> r.ok, ret |-> r.ret,
                   inserted |-> Len(r.rows) - Len(rows),
                   preIds |-> RowIds(rows),
                   sameAsPrev |-> (loadLog.n > 0 /\ loadLog.df = df.ids),
                   prevOk |-> loadLog.ok,
                   fn |-> "load_jobs_to_database", cols |-> df.cols,
                   warned |-> r.warned, urls |-> <<>>]
    /\ UNCHANGED <<tableExists, tableCols, tablePK, jobsSchema, jobsRows>>

SetTable(t) ==
    /\ tableExists' = t.exists
    /\ tableCols' = t.cols
    /\ tablePK' = t.pk
    /\ rows' = t.rows

CreateJobsTable(fault) ==
    /\ SetTable(create_jobs_table(JobsTable, fault).t)
    /\ UNCHANGED <<jobsSchema, jobsRows, loadLog>>

(***************************************************************************)
(* Scraper loader: load_jobs_to_rds(jobs_df)                               *)
(***************************************************************************)
Urls == {"u1", "u2"}

\* the url column of a scraped DataFrame, in row order
UrlFrames == SeqsUpTo(Urls, MaxBatch)

\* "connect": get_rds_connection returns None; "row": the server rejects the
\* INSERT of a row; "adapt": the driver raises on the first row before
\* anything is sent; "commit": commit() raises
RdsFaults == {"none", "connect", "row", "adapt", "commit"}

\* INSERT ... ON CONFLICT (url) DO UPDATE: one row per url, the last values
upsert_mut(rs, url, rev) == Append(rs, [url |-> url, rev |-> rev])
upsert(rs, url, rev) ==
    IF \E i \in 1..Len(rs) : rs[i].url = url
    THEN [i \in 1..Len(rs) |->
             IF rs[i].url = url THEN [url |-> url, rev |-> rev] ELSE rs[i]]
    ELSE Append(rs, [url |-> url, rev |-> rev])

RECURSIVE upsert_all(_, _, _, _)
upsert_all(rs, urls, rev, i) ==
    IF i > Len(urls) THEN rs
    ELSE upsert_all(upsert(rs, urls[i], rev), urls, rev, i + 1)

LoadJobsToRds(urls, fault) ==
    /\ loadLog.n < MaxCalls
    \* not a load_jobs_to_database call: the next one has no predecessor
    /\ loadLog' = [NoCall EXCEPT !.n = loadLog.n + 1,
                                 !.fn = "load_jobs_to_rds",
                                 !.urls = urls,
                                 !.ok = fault \notin {"connect", "commit"}]
    /\ IF fault = "connect"
       THEN UNCHANGED <<jobsSchema, jobsRows>>          \* return False
       ELSE
       \* CREATE TABLE IF NOT EXISTS jobs (... url VARCHAR(512) UNIQUE ...)
       LET schema == IF jobsSchema = "absent" THEN "url_unique"
                     ELSE jobsSchema
           \* a failed statement aborts the transaction: the statements after
           \* it fail too and commit() then persists nothing of this call;
           \* ON CONFLICT (url) fails on a table without UNIQUE(url)
           aborted == fault = "row" \/ (schema = "other" /\ Len(urls) > 0)
       IN
       IF fault = "commit" \/ aborted
       THEN UNCHANGED <<jobsSchema, jobsRows>>          \* rolled back
       ELSE /\ jobsSchema' = schema
            /\ jobsRows' = upsert_all(jobsRows, urls, loadLog.n + 1,
                                      IF fault = "adapt" THEN 2 ELSE 1)
    /\ UNCHANGED <<tableExists, tableCols, tablePK, rows>>

(***************************************************************************)
(* Raw stores: file names                                                  *)
(***************************************************************************)
\* A base file name is kept as the list file_name.split('_') returns; a part
\* is a sequence of characters.
Digit == {"0", "1", "2", "3", "4", "5", "6", "7", "8", "9"}

\* characters in code-point order (str comparison is by code point)
Alphabet == <<".", "0", "1", "2", "3", "4", "5", "6", "7", "8", "9",
              "a", "c", "e", "f", "g", "i", "j", "l", "n", "o", "p", "r",
              "s", "t", "v">>

OrdOf == [c \in Range(Alphabet) |->
             CHOOSE k \in 1..Len(Alphabet) : Alphabet[k] = c]
Ord(c) == OrdOf[c]

\* str.isdigit(): non-empty and every character a digit
isdigit(part) == Len(part) > 0 /\ \A k \in 1..Len(part) : part[k] \in Digit

\* a <= b on str
RECURSIVE StrLeq(_, _)
StrLeq(a, b) ==
    IF Len(a) = 0 THEN TRUE
    ELSE IF Len(b) = 0 THEN FALSE
    ELSE IF Ord(Head(a)) < Ord(Head(b)) THEN TRUE
    ELSE IF Ord(Head(a)) > Ord(Head(b)) THEN FALSE
    ELSE StrLeq(Tail(a), Tail(b))

\* the file names of the model and what file_name.split('_') returns for
\* each: france_travail_{keywords}_{YYYYMMDD}_{HHMMSS}_p{page}.json as
\* save_jobs_to_file writes them, and one name without a date token (an
\* 8-letter part and a 7-digit part)
N_old == "france_travail_all_20231231_120000_p1.json"
N_jan == "france_travail_all_20240101_120000_p1.json"
N_feb == "france_travail_engineer_20240215_120000_p1.json"
N_notoken == "france_travail_engineer_2024010_p1.json"

Names == {N_old, N_jan, N_feb, N_notoken}

W_france == <<"f", "r", "a", "n", "c", "e">>
W_travail == <<"t", "r", "a", "v", "a", "i", "l">>
W_all == <<"a", "l", "l">>
W_engineer == <<"e", "n", "g", "i", "n", "e", "e", "r">>
W_p1json == <<"p", "1", ".", "j", "s", "o", "n">>
T_120000 == <<"1", "2", "0", "0", "0", "0">>
D_20231231 == <<"2", "0", "2", "3", "1", "2", "3", "1">>
D_20240101 == <<"2", "0", "2", "4", "0", "1", "0", "1">>
D_20240215 == <<"2", "0", "2", "4", "0", "2", "1", "5">>
X_2024010 == <<"2", "0", "2", "4", "0", "1", "0">>

split(file_name) ==
    CASE file_name = N_old ->
           <<W_france, W_travail, W_all, D_20231231, T_120000, W_p1json>>
      [] file_name = N_jan ->
           <<W_france, W_travail, W_all, D_20240101, T_120000, W_p1json>>
      [] file_name = N_feb ->
           <<W_france, W_travail, W_engineer, D_20240215, T_120000, W_p1json>>
      [] file_name = N_notoken ->
           <<W_france, W_travail, W_engineer, X_2024010, W_p1json>>

\* the (start_date, end_date) arguments of the model
DateRanges == {<<D_20240101, D_20240101>>, <<D_20240101, D_20240215>>,
               <<D_20231231, D_20240101>>, <<D_20240215, D_20240101>>}

\* the directories involved
LocalDir == "data/raw/france_travail"
TempDir == "data/temp/s3_downloads"

S3KeySpace ==
    {[dir |-> "raw/france_travail/", name |-> f] : f \in Names}
       \cup {[dir |-> "raw/france_travail/archive/", name |-> N_jan]}

\* the ids of the offers a batch file holds (extract_job_offers); the file
\* without a date token is not valid JSON and yields no offer
FileOffers(path) ==
    IF path.name = N_old THEN <<"j1">>
    ELSE IF path.name = N_jan THEN <<"j1", "j2">>
    ELSE IF path.name = N_feb THEN <<"j2">>
    ELSE <<>>

\* all orders in which a listing may return the entries of S
Perms(S) ==
    {f \in [1..Cardinality(S) -> S] :
        \A i, j \in 1..Cardinality(S) : f[i] = f[j] => i = j}

\* os.path.basename of a local path or of a key
basename(p) == p.name

(***************************************************************************)
(* extract_by_date_range: the date filter on a file name                   *)
(***************************************************************************)
\* for part in file_name.split('_'): the first part of 8 digits decides
RECURSIVE in_date_range(_, _, _)
in_date_range(parts, start_date, end_date) ==
    IF Len(parts) = 0 THEN FALSE
    ELSE IF Len(Head(parts)) = 8 /\ isdigit(Head(parts))
         THEN StrLeq(start_date, Head(parts)) /\ StrLeq(Head(parts), end_date)
         ELSE in_date_range(Tail(parts), start_date, end_date)

\* the filter's verdict on every name and range of the model
InDateRange ==
    [f \in Names, r \in DateRanges |-> in_date_range(split(f), r[1], r[2])]

\* the entries of a listing that pass the date filter, in listing order
filter_by_date(listing, start_date, end_date) ==
    SelectSeq(listing,
              LAMBDA f : InDateRange[basename(f), <<start_date, end_date>>])

\* if file_name not in local_filenames
missing_locally_mut(s3_key, local_filenames) == TRUE
missing_locally(s3_key, local_filenames) ==
    basename(s3_key) \notin local_filenames

\* download_s3_file(bucket, key, temp_dir): the local path, or None when the
\* client is unavailable or the transfer raises (the exception is caught)
None == [dir |-> "None", name |-> <<>>]
Raise == [dir |-> "Raise", name |-> <<>>]
download_s3_file_mut(s3_key, dlFail) ==
    IF s3_key \in dlFail THEN Raise
    ELSE [dir |-> TempDir, name |-> basename(s3_key)]
download_s3_file(s3_key, dlFail) ==
    IF s3_key \in dlFail THEN None
    ELSE [dir |-> TempDir, name |-> basename(s3_key)]

\* the paths glob may return for the local raw directory
LocalPaths == {[dir |-> LocalDir, name |-> f] : f \in localFiles}

\* the loop over the remote keys: [attempted, results], results holding for
\* every attempted key what download_s3_file returned
download_missing(keys, local_filenames, dlFail) ==
    LET attempted ==
            SelectSeq(keys, LAMBDA k : missing_locally(k, local_filenames))
    IN [attempted |-> attempted,
        results |-> [i \in 1..Len(attempted) |->
                        download_s3_file(attempted[i], dlFail)]]

\* extract_jobs_to_dataframe(file_list): the files read and the ids kept.
\* An empty file_list is replaced by a new listing of the local directory
\* (list_raw_data_files).
files_read(file_list, relisting) ==
    IF Len(file_list) = 0 THEN relisting ELSE file_list

RECURSIVE collect_offers(_, _)
collect_offers(paths, seen) ==
    IF Len(paths) = 0 THEN <<>>
    ELSE LET fresh == SelectSeq(drop_duplicates(FileOffers(Head(paths))),
                                LAMBDA x : x \notin seen)
         IN fresh \o collect_offers(Tail(paths), seen \cup Range(fresh))

(***************************************************************************)
(* One extraction call.  mode "range": extract_by_date_range(start, end,   *)
(* include_s3); mode "all": extract_all_data_without_date_filter.          *)
(*   local_listing  what glob returned, s3_listing what list_s3_files      *)
(*   returned (empty when the client is unavailable), dlFail the keys      *)
(*   whose download fails                                                  *)
(***************************************************************************)
extraction(mode, start_date, end_date, include_s3, local_listing, s3_listing, dlFail) ==
    LET filtered_local ==
            IF mode = "all" THEN local_listing
            ELSE filter_by_date(local_listing, start_date, end_date)
        filtered_s3 ==
            IF ~include_s3 THEN <<>>
            ELSE IF mode = "all" THEN s3_listing
            ELSE filter_by_date(s3_listing, start_date, end_date)
        local_filenames == {basename(f) : f \in Range(filtered_local)}
        dl == download_missing(filtered_s3, local_filenames, dlFail)
        downloaded_s3_files ==
            SelectSeq(dl.results, LAMBDA r : r.dir = TempDir)
        all_files == filtered_local \o downloaded_s3_files
    IN [mode |-> mode, start |-> start_date, end |-> end_date,
        local_listing |-> local_listing, s3_listing |-> s3_listing,
        filtered_local |-> filtered_local, filtered_s3 |-> filtered_s3,
        attempted |-> dl.attempted,
        failed |-> SelectSeq(dl.attempted, LAMBDA k : k \in dlFail),
        all_files |-> all_files,
        raised |-> \E i \in 1..Len(dl.results) : dl.results[i] = Raise]

NoExtraction ==
    [n |-> 0, mode |-> "none", start |-> <<>>, end |-> <<>>,
     local_listing |-> <<>>, s3_listing |-> <<>>,
     filtered_local |-> <<>>, filtered_s3 |-> <<>>,
     attempted |-> <<>>, failed |-> <<>>, all_files |-> <<>>,
     raised |-> FALSE, read |-> <<>>, offers |-> <<>>,
     fn |-> "none", include_s3 |-> FALSE, earlier |-> {}, ret |-> "None"]

\* what the call leaves in the temporary directory
TempAfter(r) ==
    tempFiles \cup {r.all_files[i].name :
                      i \in {j \in 1..Len(r.all_files) :
                                r.all_files[j].dir = TempDir}}

\* fn: the function called, extract_data or the extraction function itself;
\* earlier: the keys the extraction call before this one downloaded; ret:
\* "df" when a DataFrame (or the path of its CSV export) is returned
downloaded_keys(r) == {k \in Range(r.attempted) : k \notin Range(r.failed)}

\* extract_data, lines 511-523: None is returned for an empty result; the
\* temporary directory is removed after that test
temp_after(fn, r, offers) ==
    IF fn = "extract_data" /\ offers # <<>> THEN {} ELSE TempAfter(r)

Extract(mode, start_date, end_date, include_s3, s3Up, fn) ==
    /\ \/ exLog.n = 0
       \/ /\ exLog.n < MaxRuns
          /\ fn = "extract_data" /\ exLog.fn = fn
          /\ <<mode, start_date, end_date, include_s3>>
                = <<exLog.mode, exLog.start, exLog.end, exLog.include_s3>>
    /\ \E local_listing \in Perms(LocalPaths),
          s3_listing \in (IF include_s3 /\ s3Up THEN Perms(s3Keys)
                          ELSE {<<>>}) :
        \E dlFail \in SUBSET Range(s3_listing) :
          LET r == extraction(mode, start_date, end_date, include_s3,
                              local_listing, s3_listing, dlFail)
          IN \* return extract_jobs_to_dataframe(all_files)
             \E relisting \in (IF Len(r.all_files) = 0 THEN Perms(LocalPaths)
                                ELSE {<<>>}) :
               LET read == files_read(r.all_files, relisting)
                   offers == collect_offers(read, {})
               IN /\ exLog' = [n |-> exLog.n + 1, read |-> read,
                               offers |-> offers, fn |-> fn,
                               include_s3 |-> include_s3,
                               earlier |-> downloaded_keys(exLog),
                               ret |-> IF offers # <<>> THEN "df"
                                       ELSE "None"] @@ r
                  /\ tempFiles' = temp_after(fn, r, offers)
    /\ UNCHANGED <<localFiles, s3Keys>>

ExtractByDateRange(start_date, end_date, include_s3, s3Up) ==
    Extract("range", start_date, end_date, include_s3, s3Up,
            "extract_by_date_range")

ExtractAllData(include_s3, s3Up) ==
    Extract("all", <<>>, <<>>, include_s3, s3Up,
            "extract_all_data_without_date_filter")

\* extract_data(start_date, end_date, include_s3=..., all_data=...)
ExtractData(all_data, start_date, end_date, include_s3, s3Up) ==
    IF all_data THEN Extract("all", <<>>, <<>>, include_s3, s3Up, "extract_data")
    ELSE Extract("range", start_date, end_date, include_s3, s3Up, "extract_data")

\* the states in which a part of the program has not run
FsIdle ==
    /\ localFiles = {}
    /\ s3Keys = {}
    /\ tempFiles = {}
    /\ exLog = NoExtraction

DbIdle ==
    /\ tableExists = FALSE
    /\ tableCols = {}
    /\ tablePK = FALSE
    /\ rows = <<>>
    /\ jobsSchema = "absent"
    /\ jobsRows = <<>>
    /\ loadLog = NoCall

NoRun == [entry |-> "none", max_pages |-> 0, force_collect |-> FALSE,
          upload_s3 |-> FALSE, hadLocal |-> FALSE, hadRemote |-> FALSE,
          tokenOk |-> FALSE]

ColIdle ==
    /\ cPc = "idle"
    /\ cRun = NoRun
    /\ cPage = 0
    /\ cToken = 0
    /\ cRequests = <<>>
    /\ cSaved = <<>>
    /\ cReturn = [total |-> 0, files |-> {}]

\* datasets held by a variable of a run: not assigned, None, a DataFrame
Undefined == [st |-> "undefined", recs |-> <<>>]
NoneDf == [st |-> "None", recs |-> <<>>]
Df(recs) == [st |-> "df", recs |-> recs]

NoExit == -1

NoArgs == [entry |-> "none", mode |-> "none", skip_db |-> FALSE,
           input_file |-> "none"]

RunIdle ==
    /\ rPc = "idle"
    /\ rArgs = NoArgs
    /\ raw_df = Undefined
    /\ transformed_df = Undefined
    /\ rSource = "none"
    /\ rTrace = <<>>
    /\ rExit = NoExit
    /\ rCause = {}

NoChunkCall == [fn |-> "none", n |-> 0, failing |-> {}, ret |-> 0]

ChunkIdle ==
    /\ kJobs = {}
    /\ kSkills = {}
    /\ kLog = NoChunkCall

NormIdle ==
    /\ nFn = "none"
    /\ nIn = <<>>
    /\ nOut = ""
    /\ nRaised = FALSE

(***************************************************************************)
(* Connections of a loading run: run_loading (france_travail_etl.py),      *)
(* get_db_connection of loading.py and of job_skills_loader.py.  An engine *)
(* keeps the connections it opened in its pool: leaving a `with            *)
(* engine.connect()` block or calling session.close() hands the connection *)
(* back to the pool and leaves it open.  No statement of the run disposes  *)
(* of an engine.                                                           *)
(***************************************************************************)
Engines == {"loading", "job_skills_loader"}

NoRunLog == [connected |-> FALSE, select |-> 0, insert |-> 0, jobs_loaded |-> 0]

ConnIdle ==
    /\ dPc = "idle"
    /\ dArgs = [data |-> [cols |-> PreparedCols, ids |-> <<>>],
                skip_load |-> FALSE, skip_skills |-> FALSE]
    /\ dConns = <<>>
    /\ dLog = NoRunLog

\* the pooled connection of an engine, 0 when its pool is empty
pooled(conns, engine) ==
    IF \E i \in 1..Len(conns) : conns[i].engine = engine /\ conns[i].open
    THEN CHOOSE i \in 1..Len(conns) : conns[i].engine = engine /\ conns[i].open
    ELSE 0

\* engine.connect(): the pooled connection when there is one, a new
\* connection otherwise
checkout(conns, engine) ==
    IF pooled(conns, engine) # 0 THEN conns
    ELSE Append(conns, [engine |-> engine, open |-> TRUE])

\* run_loading, lines 245-273: the two early returns, then
\* get_db_connection(): create_engine and the test `with engine.connect()`
EnterRunLoading(connects) ==
    /\ dPc = "start"
    /\ IF dArgs.skip_load \/ Len(dArgs.data.ids) = 0 \/ ~connects
       THEN /\ dPc' = "done"
            /\ UNCHANGED <<dConns, dLog>>
       ELSE /\ dPc' = "create"
            /\ dConns' = checkout(dConns, "loading")
            /\ dLog' = [dLog EXCEPT !.connected = TRUE]
    /\ UNCHANGED <<dArgs, dbVars>>

\* run_loading, lines 275-280: create_jobs_table(engine); the inspector and
\* to_sql take the connection of the pool
CreateTableStage(fault) ==
    /\ dPc = "create"
    /\ fault # "no_engine"
    /\ CreateJobsTable(fault)
    /\ dConns' = checkout(dConns, "loading")
    /\ dPc' = IF create_jobs_table(JobsTable, fault).ok THEN "load" ELSE "done"
    /\ UNCHANGED <<dArgs, dLog>>

\* the statements of load_jobs_to_database that reach the database
reaches_select(t, df, fault) ==
    /\ t.exists /\ fault \notin {"inspect"}
    /\ "id" \in common_columns(df.cols, t.cols)

reaches_insert(t, df, fault) ==
    /\ reaches_select(t, df, fault) /\ fault # "select"
    /\ new_records(drop_duplicates(df.ids), RowIds(t.rows)) # <<>>

\* run_loading, lines 282-286: load_jobs_to_database(data, engine)
LoadStage(fault) ==
    /\ dPc = "load"
    /\ fault # "no_engine"
    /\ LoadJobsToDatabase(dArgs.data, fault)
    /\ dConns' = checkout(dConns, "loading")
    /\ dLog' = [dLog EXCEPT
                  !.select = IF reaches_select(JobsTable, dArgs.data, fault)
                             THEN pooled(dConns', "loading") ELSE 0,
                  !.insert = IF reaches_insert(JobsTable, dArgs.data, fault)
                             THEN pooled(dConns', "loading") ELSE 0,
                  !.jobs_loaded = load_jobs_to_database(dArgs.data, fault).ret]
    /\ dPc' = IF dArgs.skip_skills THEN "done" ELSE "skills"
    /\ UNCHANGED dArgs

\* run_loading, lines 289-298: execute_skills_loading(data) calls the
\* get_db_connection of job_skills_loader, which creates an engine of its
\* own and a session; the finally clause closes the session
SkillsOutcomes == {"no_skills", "no_connection", "loaded", "raised"}

SkillsStage(outcome) ==
    /\ dPc = "skills"
    /\ dConns' = IF outcome \in {"no_skills", "no_connection"} THEN dConns
                 ELSE checkout(dConns, "job_skills_loader")
    /\ dPc' = "done"
    /\ UNCHANGED <<dArgs, dLog, dbVars>>

\* run_loading returns: the names engine and session go out of scope.  A
\* pooled connection is closed when the interpreter collects its engine,
\* which may happen at once, later or not before the process ends
Collections == SUBSET (1..2)

ReturnFromRunLoading(collected) ==
    /\ dPc = "done"
    /\ dPc' = "returned"
    /\ dConns' = [i \in 1..Len(dConns) |->
                    IF i \in collected THEN [dConns[i] EXCEPT !.open = FALSE]
                    ELSE dConns[i]]
    /\ UNCHANGED <<dArgs, dLog, dbVars>>

(***************************************************************************)
(* Credentials: get_s3_client and list_s3_files (extraction.py),           *)
(* get_db_connection (job_skills_loader.py), setup_environment             *)
(* (scripts/run_etl.py).  A name of os.environ is "unset", holds the value *)
(* of the configuration ("config") or a value written in the code          *)
(* ("builtin").                                                            *)
(***************************************************************************)
S3Credentials == {"KEY_ACCESS", "KEY_SECRET"}
DbCredentials == {"DB_USER", "DB_PASSWORD"}
DbSettings == {"DB_HOST", "DB_PORT", "DB_NAME"} \cup DbCredentials
SetupNames == DbSettings \cup {"AWS_ACCESS_KEY_ID", "AWS_SECRET_ACCESS_KEY", "S3_BUCKET"}
EnvNames == S3Credentials \cup SetupNames \cup {"DATA_LAKE_BUCKET"}

environ_of(config) == [name \in EnvNames |-> IF name \in config THEN "config" ELSE "unset"]

NoCredCall == [fn |-> "none", missing |-> {}, reported |-> FALSE, failed |-> FALSE, used |-> "none", ret |-> "none"]

CredIdle ==
    /\ gConfig = {}
    /\ gEnviron = environ_of({})
    /\ gLog = NoCredCall

\* the names of needed that the configuration does not define
missing_from(config, needed) == needed \ config

\* setup_environment(): every name of the list is overwritten with the value
\* written in the code, and True is returned
setup_environment(environ) == [name \in EnvNames |-> IF name \in SetupNames THEN "builtin" ELSE environ[name]]

SetupEnvironment ==
    /\ gLog.fn = "none"
    /\ gEnviron' = setup_environment(gEnviron)
    /\ gLog' = [fn |-> "setup_environment",
                missing |-> missing_from(gConfig, DbCredentials),
                reported |-> FALSE, failed |-> FALSE,
                used |-> "builtin", ret |-> "True"]
    /\ UNCHANGED gConfig

\* head_bucket on the client: it answers, the bucket refuses (ClientError),
\* or another exception is raised
HeadBucket == {"ok", "client_error", "exception"}

\* get_s3_client(): None and an error in the log when KEY_ACCESS or
\* KEY_SECRET is not set, or when head_bucket fails
get_s3_client(environ, head_bucket) ==
    IF \E name \in S3Credentials : environ[name] = "unset"
    THEN [client |-> "None", reported |-> TRUE, used |-> "none"]
    ELSE IF head_bucket = "ok"
    THEN [client |-> "client", reported |-> FALSE, used |-> "config"]
    ELSE [client |-> "None", reported |-> TRUE, used |-> "config"]

CredStart == gLog.fn \in {"none", "setup_environment"}

GetS3Client(head_bucket) ==
    LET r == get_s3_client(gEnviron, head_bucket) IN
    /\ CredStart
    /\ gLog' = [fn |-> "get_s3_client",
                missing |-> missing_from(gConfig, S3Credentials),
                reported |-> r.reported, failed |-> r.client = "None",
                used |-> r.used, ret |-> r.client]
    /\ UNCHANGED <<gConfig, gEnviron>>

\* list_s3_files(): without a client a warning is logged and the empty list
\* is returned, as for an empty bucket; the callers go on with the local
\* files.  With a client the listing is returned, [] when it raises.
Listings == {"keys", "raises"}

ListS3Files(head_bucket, listing) ==
    LET r == get_s3_client(gEnviron, head_bucket) IN
    /\ CredStart
    /\ gLog' = [fn |-> "list_s3_files",
                missing |-> missing_from(gConfig, S3Credentials),
                reported |-> r.reported \/ listing = "raises",
                failed |-> FALSE,
                used |-> r.used,
                ret |-> IF r.client = "client" /\ listing = "keys"
                        THEN "keys" ELSE "empty_list"]
    /\ UNCHANGED <<gConfig, gEnviron>>

\* os.getenv(name, default) of get_db_connection in job_skills_loader.py
getenv_default(environ, name) == IF environ[name] = "unset" THEN "builtin" ELSE environ[name]

\* get_db_connection(): connects with what os.getenv gives, the defaults
\* written in the code for the names that are not set
get_db_connection(environ, connects) ==
    LET used == IF \E name \in DbCredentials : getenv_default(environ, name) = "builtin"
                THEN "builtin" ELSE "config"
    IN IF connects
       THEN [ret |-> "engine", reported |-> FALSE, used |-> used]
       ELSE [ret |-> "None", reported |-> TRUE, used |-> used]

GetDbConnection(connects) ==
    LET r == get_db_connection(gEnviron, connects) IN
    /\ CredStart
    /\ gLog' = [fn |-> "get_db_connection",
                missing |-> missing_from(gConfig, DbCredentials),
                reported |-> r.reported, failed |-> r.ret = "None",
                used |-> r.used, ret |-> r.ret]
    /\ UNCHANGED <<gConfig, gEnviron>>

InitExtract ==
    /\ localFiles \in {S \in SUBSET Names : Cardinality(S) <= MaxLocal}
    /\ s3Keys \in {S \in SUBSET S3KeySpace : Cardinality(S) <= MaxRemote}
    /\ tempFiles \in {{}, {N_jan}}
    /\ exLog = NoExtraction
    /\ DbIdle
    /\ ColIdle
    /\ RunIdle
    /\ ConnIdle
    /\ CredIdle
    /\ NormIdle
    /\ ChunkIdle

NextExtract ==
    \/ \E range \in DateRanges, include_s3 \in BOOLEAN, s3Up \in BOOLEAN :
          ExtractByDateRange(range[1], range[2], include_s3, s3Up)
             /\ UNCHANGED <<dbVars, colVars, runVars, chunkVars, normVars, credVars, connVars>>
    \/ \E include_s3 \in BOOLEAN, s3Up \in BOOLEAN :
          ExtractAllData(include_s3, s3Up) /\ UNCHANGED <<dbVars, colVars, runVars, chunkVars, normVars, credVars, connVars>>

SpecExtract == InitExtract /\ [][NextExtract]_vars

(***************************************************************************)
(* Collector: collect_all_jobs (scripts/collect_all_france_travail_jobs.py)*)
(* and collect_jobs (data_collection/apis/pole_emploi.py).  In this part a *)
(* file name is kept as the fields save_jobs_to_file formats into it:      *)
(* france_travail_{tag}_{date}_{stamp}_p{page}.json                        *)
(***************************************************************************)
PerPage == 150
RefreshEvery == 10

\* day numbers standing for YYYYMMDD strings; today_str is Today
Yesterday == 1
Today == 2

BatchFile(tag, date, stamp, page) ==
    [tag |-> tag, date |-> date, stamp |-> stamp, page |-> page]

S3Prefix == "raw/france_travail/"

\* upload_to_s3: the key is the local path without its leading data/
s3_path(file) == [dir |-> S3Prefix, name |-> file]

\* files earlier runs may have left
OldFiles == {BatchFile("all", Yesterday, 0, 1), BatchFile("all", Today, 0, 1),
             BatchFile("dev", Today, 0, 1)}

\* the order in which the bucket lists its keys: the order of the key strings
TagRank(tag) == IF tag = "all" THEN 1 ELSE 2
KeyBefore(a, b) ==
    LET x == a.name
        y == b.name
    IN \/ TagRank(x.tag) < TagRank(y.tag)
       \/ x.tag = y.tag /\ x.date < y.date
       \/ x.tag = y.tag /\ x.date = y.date /\ x.stamp < y.stamp
       \/ x.tag = y.tag /\ x.date = y.date /\ x.stamp = y.stamp
             /\ x.page < y.page

\* response['Contents'] of one list_objects_v2 call: the first keys only
list_objects_v2_mut(keys) == {}
list_objects_v2(keys) ==
    {k \in keys : Cardinality({j \in keys : KeyBefore(j, k)}) < ListPageSize}

\* is_data_already_collected(date_str) with keywords=None
clean_keywords == "all"

is_data_already_collected(date_str, s3Fault) ==
    LET local_files ==
            {f \in localFiles : f.tag = clean_keywords /\ f.date = date_str}
        s3_files ==
            {k \in list_objects_v2(s3Keys) :
                k.name.tag = clean_keywords /\ k.name.date = date_str}
    IN IF local_files # {} THEN [found |-> TRUE, files |-> local_files]
       ELSE IF s3Fault THEN [found |-> FALSE, files |-> {}]
       ELSE IF s3_files # {} THEN [found |-> TRUE, files |-> s3_files]
       ELSE [found |-> FALSE, files |-> {}]

\* what a batch file of tag "all" dated today means for the run that starts
HadLocal == \E f \in localFiles : f.tag = "all" /\ f.date = Today
HadRemote == \E k \in s3Keys : k.name.tag = "all" /\ k.name.date = Today

Finish(total, files) ==
    /\ cPc' = "done"
    /\ cReturn' = [total |-> total, files |-> files]

\* the loop header: a next iteration, or the end of the loop
EnterLoop(page, max_pages, total, files) ==
    IF page <= max_pages
    THEN cPc' = "loop" /\ cPage' = page /\ cReturn' = [total |-> total, files |-> {}]
    ELSE Finish(total, files) /\ cPage' = page

\* collect_all_jobs up to the first iteration of its loop
StartCollectAll(max_pages, upload_s3, force_collect, s3Fault, tokenOk) ==
    LET chk == is_data_already_collected(Today, s3Fault) IN
    /\ cPc = "idle"
    /\ cRun' = [entry |-> "collect_all_jobs", max_pages |-> max_pages,
                force_collect |-> force_collect, upload_s3 |-> upload_s3,
                hadLocal |-> HadLocal, hadRemote |-> HadRemote,
                tokenOk |-> tokenOk]
    /\ cRequests' = <<>>
    /\ cSaved' = <<>>
    /\ IF ~force_collect /\ chk.found
       THEN Finish(0, chk.files) /\ UNCHANGED <<cPage, cToken>>
       ELSE IF ~tokenOk
       THEN Finish(0, {}) /\ UNCHANGED <<cPage, cToken>>
       ELSE cToken' = 1 /\ EnterLoop(1, max_pages, 0, {})
    /\ UNCHANGED <<localFiles, s3Keys, tempFiles, exLog>>

\* collect_jobs up to the first iteration of its loop
StartCollectJobs(max_pages, upload_s3, tokenOk) ==
    /\ cPc = "idle"
    /\ cRun' = [entry |-> "collect_jobs", max_pages |-> max_pages,
                force_collect |-> TRUE, upload_s3 |-> upload_s3,
                hadLocal |-> HadLocal, hadRemote |-> HadRemote,
                tokenOk |-> tokenOk]
    /\ cRequests' = <<>>
    /\ cSaved' = <<>>
    /\ IF ~tokenOk
       THEN Finish(0, {}) /\ UNCHANGED <<cPage, cToken>>
       ELSE cToken' = 1 /\ EnterLoop(1, max_pages, 0, {})
    /\ UNCHANGED <<localFiles, s3Keys, tempFiles, exLog>>

\* search_jobs returns None (status not 200/206, request exception) or the
\* decoded answer, of which the loop uses len(resultats)
NoResults == -1
Responses == {NoResults, 0, PerPage - 1, PerPage}

\* if nb_offres < 150: break
last_page_mut(nb_offres) == FALSE
last_page(nb_offres) == nb_offres < PerPage

\* if page % 10 == 0: the token is renewed
refresh_due_mut(page) == page % RefreshEvery = 1
refresh_due(page) == page % RefreshEvery = 0

\* one iteration of the page loop of either function; a request is logged
\* with the token it was sent with and what the get_access_token call after
\* it gave: "none" (no call), "renewed" or "failed"
PageStep(nb, saveOk, uploadOk, refreshOk) ==
    LET file == BatchFile("all", Today, 1, cPage)
        total == cReturn.total + (IF nb > 0 THEN nb ELSE 0)
        stored == nb > 0 /\ saveOk
        saved == IF stored THEN Append(cSaved, file) ELSE cSaved
        break == nb = NoResults \/ last_page(nb)
        attempt == ~break /\ cRun.entry = "collect_all_jobs"
                      /\ refresh_due(cPage)
        refresh == attempt /\ refreshOk
    IN
    /\ cPc = "loop"
    /\ cRequests' = Append(cRequests,
                           [page |-> cPage, nb |-> nb, token |-> cToken,
                            refresh |-> IF ~attempt THEN "none"
                                        ELSE IF refreshOk THEN "renewed"
                                        ELSE "failed"])
    /\ localFiles' = IF stored THEN localFiles \cup {file} ELSE localFiles
    /\ s3Keys' = IF stored /\ cRun.upload_s3 /\ uploadOk
                 THEN s3Keys \cup {s3_path(file)} ELSE s3Keys
    /\ cSaved' = saved
    /\ IF break
       THEN Finish(total, Range(saved)) /\ UNCHANGED <<cPage, cToken>>
       ELSE /\ cToken' = IF refresh THEN cToken + 1 ELSE cToken
            /\ EnterLoop(cPage + 1, cRun.max_pages, total, Range(saved))
    /\ UNCHANGED <<cRun, tempFiles, exLog>>

InitCollect ==
    /\ localFiles \in {S \in SUBSET OldFiles : Cardinality(S) <= MaxLocal}
    /\ s3Keys \in {S \in SUBSET {s3_path(f) : f \in OldFiles} :
                      Cardinality(S) <= MaxRemote}
    /\ tempFiles = {}
    /\ exLog = NoExtraction
    /\ ColIdle
    /\ DbIdle
    /\ RunIdle
    /\ ConnIdle
    /\ CredIdle
    /\ NormIdle
    /\ ChunkIdle

PageSteps ==
    \E nb \in Responses, saveOk \in BOOLEAN, uploadOk \in BOOLEAN,
       refreshOk \in BOOLEAN :
        PageStep(nb, saveOk, uploadOk, refreshOk) /\ UNCHANGED <<dbVars, runVars, chunkVars, normVars, credVars, connVars>>

NextCollect ==
    \/ \E max_pages \in 0..MaxPages, upload_s3 \in BOOLEAN,
          force_collect \in BOOLEAN, s3Fault \in BOOLEAN, tokenOk \in BOOLEAN :
          StartCollectAll(max_pages, upload_s3, force_collect, s3Fault, tokenOk)
             /\ UNCHANGED <<dbVars, runVars, chunkVars, normVars, credVars, connVars>>
    \/ \E max_pages \in 0..MaxPages, upload_s3 \in BOOLEAN, tokenOk \in BOOLEAN :
          StartCollectJobs(max_pages, upload_s3, tokenOk) /\ UNCHANGED <<dbVars, runVars, chunkVars, normVars, credVars, connVars>>
    \/ PageSteps

\* a request that was sent is answered or fails: the loop goes on
SpecCollect == InitCollect /\ [][NextCollect]_vars /\ WF_vars(PageSteps)

(***************************************************************************)
(* Orchestrators: main of scripts/run_etl.py ("scripts_main"), main of     *)
(* run_etl.py ("root_main") and run_pipeline of france_travail_etl.py.     *)
(* One action per stage.                                                   *)
(***************************************************************************)
Entries == {"scripts_main", "root_main", "run_pipeline"}
Modes == {"full", "extract", "transform", "load"}
InputFiles == {"none", "present", "missing"}

\* a record of a batch: its id and what lieuTravail.libelle holds
Rec(id, libelle) == [id |-> id, libelle |-> libelle]

\* batch files: with a well-formed record, with a record whose libelle is
\* null, not valid JSON, valid JSON of another shape ("resultats": null)
BatchKinds == {"good", "null_libelle", "corrupt", "malformed"}

BatchRecords(kind) ==
    IF kind = "good" THEN <<Rec("j1", "str")>>
    ELSE IF kind = "null_libelle" THEN <<Rec("j2", "None")>>
    ELSE <<>>

BatchLists == SeqsUpTo(BatchKinds, MaxFiles)

\* extract_jobs_to_dataframe over the batches: the records, first of each id
RECURSIVE offers_of(_, _)
offers_of(batches, seen) ==
    IF Len(batches) = 0 THEN <<>>
    ELSE LET fresh == SelectSeq(BatchRecords(Head(batches)),
                                LAMBDA r : r.id \notin seen)
         IN fresh \o offers_of(Tail(batches),
                               seen \cup {fresh[i].id : i \in 1..Len(fresh)})

\* the extraction functions on these batches: len(None) raises in
\* extract_job_offers for the malformed file, a file that is not JSON is
\* skipped, no offer at all gives None
extract_batches(batches) ==
    LET recs == offers_of(batches, {}) IN
    [raised |-> \E i \in 1..Len(batches) : batches[i] = "malformed",
     df |-> IF Len(recs) = 0 THEN NoneDf ELSE Df(recs)]

\* what the batches make go wrong
BatchEvents(batches) ==
    (IF \A i \in 1..Len(batches) : batches[i] \in {"corrupt", "malformed"}
     THEN {"no_batches"} ELSE {})
    \cup (IF \E i \in 1..Len(batches) : batches[i] \in {"corrupt", "malformed"}
          THEN {"bad_batch_file"} ELSE {})

\* transform_job_dataframe(df): None for an empty frame; re.match on a
\* libelle that is None raises TypeError in extract_country_and_location
null_libelle_raises(recs) ==
    \E i \in 1..Len(recs) : recs[i].libelle = "None"

transform_job_dataframe(df) ==
    IF df.st = "undefined" THEN [raised |-> TRUE, df |-> NoneDf]
    ELSE IF df.st = "None" \/ Len(df.recs) = 0
         THEN [raised |-> FALSE, df |-> NoneDf]
    ELSE IF null_libelle_raises(df.recs) THEN [raised |-> TRUE, df |-> NoneDf]
    ELSE [raised |-> FALSE, df |-> df]

Done(code) == rPc' = "done" /\ rExit' = code
Fail(code) == rPc' = "failed" /\ rExit' = code
Goto(stage) == rPc' = stage /\ UNCHANGED rExit

\* the stage after the transformation
AfterTransform ==
    IF rArgs.entry = "run_pipeline" THEN Goto("loading")
    ELSE IF rArgs.mode \in {"full", "load"} /\ ~rArgs.skip_db
         THEN Goto("loading")
    ELSE Done(0)

RunStart(entry, mode, skip_db, input_file) ==
    /\ rPc = "idle"
    /\ entry = "run_pipeline" => (mode = "full" /\ input_file = "none")
    /\ rArgs' = [entry |-> entry, mode |-> mode, skip_db |-> skip_db,
                 input_file |-> input_file]
    /\ IF mode \in {"full", "extract"} THEN Goto("extraction")
       ELSE IF mode = "transform" THEN Goto("normalization")
       ELSE IF ~skip_db THEN Goto("loading")
       ELSE Done(0)
    /\ UNCHANGED <<raw_df, transformed_df, rTrace, rCause, rSource>>
    /\ UNCHANGED dbVars

\* the extraction stage
RunExtraction(batches) ==
    LET x == extract_batches(batches)
        next == IF rArgs.mode = "full" THEN Goto("normalization") ELSE Done(0)
    IN
    /\ rPc = "extraction"
    /\ rTrace' = Append(rTrace, "extraction")
    /\ UNCHANGED rArgs
    /\ IF rArgs.entry = "scripts_main" /\ rArgs.input_file = "missing"
       THEN \* pd.read_csv raises
            /\ rCause' = rCause \cup {"no_input"}
            /\ Fail(1) /\ UNCHANGED raw_df
       ELSE IF rArgs.entry = "scripts_main" /\ rArgs.input_file = "present"
       THEN /\ rCause' = rCause
            /\ raw_df' = Df(offers_of(batches, {}))
            /\ next
       ELSE /\ rCause' = rCause \cup BatchEvents(batches)
            /\ IF rArgs.entry = "scripts_main"
               THEN \* extract_data catches and returns None
                    IF x.raised \/ x.df.st = "None"
                    THEN raw_df' = NoneDf /\ Fail(1)
                    ELSE raw_df' = x.df /\ next
               ELSE IF rArgs.entry = "root_main"
               THEN \* extract_by_date_range called in main's try
                    IF x.raised THEN UNCHANGED raw_df /\ Fail(1)
                    ELSE IF x.df.st = "None" THEN raw_df' = NoneDf /\ Done(0)
                    ELSE raw_df' = x.df /\ next
               ELSE \* run_extraction returns None, run_pipeline goes on
                    /\ raw_df' = IF x.raised THEN NoneDf ELSE x.df
                    /\ Goto("normalization")
    /\ UNCHANGED <<transformed_df, rSource>>
    /\ UNCHANGED dbVars

\* in transform mode: the frame read from a file, or raw_df left unassigned
TransformInput(batches, found) ==
    LET csv == Df(offers_of(batches, {})) IN
    IF rArgs.mode # "transform" THEN [ok |-> TRUE, df |-> raw_df]
    ELSE IF rArgs.entry = "scripts_main"
         THEN IF rArgs.input_file # "none" THEN [ok |-> TRUE, df |-> raw_df]
              ELSE IF found THEN [ok |-> TRUE, df |-> csv]
              ELSE [ok |-> FALSE, df |-> raw_df]
    ELSE IF rArgs.input_file = "present" \/ found THEN [ok |-> TRUE, df |-> csv]
    ELSE [ok |-> FALSE, df |-> raw_df]

\* the statement that assigned the raw_df the transformation is called
\* with: pd.read_csv(args.input_file) ("input_file"), the extraction
\* function ("extraction"), pd.read_csv of the latest intermediate or raw
\* CSV file ("intermediate"), or no statement at all ("undefined"); "none"
\* when the run ends before the call
transform_source(args, found) ==
    IF args.mode # "transform"
    THEN IF args.entry = "scripts_main" /\ args.input_file = "present"
         THEN "input_file" ELSE "extraction"
    ELSE IF args.entry = "scripts_main"
         THEN IF args.input_file # "none" THEN "undefined"
              ELSE IF found THEN "intermediate" ELSE "none"
    ELSE IF args.input_file = "present" THEN "input_file"
    ELSE IF found THEN "intermediate" ELSE "none"

\* the normalization stage: transform_job_dataframe
RunNormalization(batches, found) ==
    LET in == TransformInput(batches, found)
        t == transform_job_dataframe(in.df)
    IN
    /\ rPc = "normalization"
    /\ rTrace' = Append(rTrace, "normalization")
    /\ UNCHANGED rArgs
    /\ raw_df' = in.df
    /\ rSource' = transform_source(rArgs, found)
    /\ IF ~in.ok
       THEN /\ rCause' = rCause \cup {"no_input"}
            /\ Fail(1) /\ UNCHANGED transformed_df
       ELSE IF rArgs.entry = "run_pipeline" /\ in.df.st = "None"
       THEN \* run_transformation returns None
            /\ rCause' = rCause
            /\ transformed_df' = NoneDf
            /\ Goto("loading")
       ELSE IF t.raised
       THEN /\ rCause' = rCause \cup (IF in.df.st = "undefined"
                                      THEN {"undefined"} ELSE {"bad_record"})
            /\ Fail(1) /\ UNCHANGED transformed_df
       ELSE IF t.df.st = "None"
       THEN /\ rCause' = rCause \cup {"no_data"}
            /\ transformed_df' = NoneDf
            /\ Fail(1)
       ELSE /\ rCause' = rCause
            /\ transformed_df' = t.df
            /\ Goto("tagging")
    /\ UNCHANGED dbVars

\* the tagging stage: apply_keyword_analysis
RunTagging ==
    /\ rPc = "tagging"
    /\ rTrace' = Append(rTrace, "tagging")
    /\ UNCHANGED rArgs
    /\ AfterTransform
    /\ UNCHANGED <<raw_df, transformed_df, rCause, rSource>>
    /\ UNCHANGED dbVars

LoadStageFaults == {"none", "prepare", "no_engine", "create", "probe",
                    "inspect", "select", "insert", "skills"}

AsFrame(df) ==
    [cols |-> PreparedCols, ids |-> [i \in 1..Len(df.recs) |-> df.recs[i].id]]

\* the loading stage
RunLoading(fault, found) ==
    LET pipeline == rArgs.entry = "run_pipeline"
        data == IF rArgs.mode = "load" THEN Df(<<Rec("j1", "str")>>)
                ELSE transformed_df
        c == create_jobs_table(JobsTable, fault)
        l == load_into(c.t, AsFrame(data), fault)
    IN
    /\ rPc = "loading"
    /\ rTrace' = Append(rTrace, "loading")
    /\ UNCHANGED rArgs
    /\ UNCHANGED <<raw_df, rSource>>
    /\ UNCHANGED <<jobsSchema, jobsRows, loadLog>>
    /\ IF pipeline /\ (rArgs.skip_db \/ data.st # "df")
       THEN \* run_loading returns at once
            /\ Done(0)
            /\ UNCHANGED <<transformed_df, rCause, tableExists, tableCols,
                           tablePK, rows>>
       ELSE IF rArgs.mode = "load" /\ ~found
       THEN /\ rCause' = rCause \cup {"no_input"}
            /\ Fail(1)
            /\ UNCHANGED <<transformed_df, tableExists, tableCols, tablePK, rows>>
       ELSE
       /\ transformed_df' = data
       /\ IF ~pipeline /\ (fault = "prepare" \/ data.st # "df")
          THEN /\ rCause' = rCause \cup {"prepare"}
               /\ Fail(1)
               /\ UNCHANGED <<tableExists, tableCols, tablePK, rows>>
          ELSE IF fault = "no_engine"
          THEN /\ rCause' = rCause \cup {"no_db"}
               /\ IF pipeline THEN Done(0) ELSE Fail(1)
               /\ UNCHANGED <<tableExists, tableCols, tablePK, rows>>
          ELSE IF ~c.ok
          THEN /\ rCause' = rCause \cup {"table"}
               /\ IF pipeline THEN Done(0) ELSE Fail(1)
               /\ SetTable(c.t)
          ELSE /\ SetTable([c.t EXCEPT !.rows = l.rows])
               /\ IF pipeline /\ fault = "skills"
                  THEN \* execute_skills_loading raises
                       /\ rCause' = rCause \cup {"skills"}
                       /\ Fail(1)
                  ELSE /\ rCause' = rCause \cup
                                      (IF l.ok THEN {} ELSE {"load_error"})
                       /\ Done(0)

InitRun ==
    /\ \/ /\ tableExists = FALSE
          /\ tableCols = {}
          /\ tablePK = FALSE
          /\ rows = <<>>
       \/ /\ tableExists = TRUE
          /\ tableCols = ExpectedCols
          /\ tablePK = TRUE
          /\ rows \in {<<>>, <<[id |-> "j1", cols |-> ExpectedCols]>>}
    /\ jobsSchema = "absent"
    /\ jobsRows = <<>>
    /\ loadLog = NoCall
    /\ FsIdle
    /\ ColIdle
    /\ RunIdle
    /\ ConnIdle
    /\ CredIdle
    /\ NormIdle
    /\ ChunkIdle

NextRun ==
    \/ \E entry \in Entries, mode \in Modes, skip_db \in BOOLEAN,
          input_file \in InputFiles :
          RunStart(entry, mode, skip_db, input_file)
             /\ UNCHANGED <<fsVars, colVars, chunkVars, normVars, credVars, connVars>>
    \/ \E batches \in BatchLists :
          RunExtraction(batches) /\ UNCHANGED <<fsVars, colVars, chunkVars, normVars, credVars, connVars>>
    \/ \E batches \in BatchLists, found \in BOOLEAN :
          RunNormalization(batches, found) /\ UNCHANGED <<fsVars, colVars, chunkVars, normVars, credVars, connVars>>
    \/ RunTagging /\ UNCHANGED <<fsVars, colVars, chunkVars, normVars, credVars, connVars>>
    \/ \E fault \in LoadStageFaults, found \in BOOLEAN :
          RunLoading(fault, found) /\ UNCHANGED <<fsVars, colVars, chunkVars, normVars, credVars, connVars>>

SpecRun == InitRun /\ [][NextRun]_vars

(***************************************************************************)
(* Chunked inserts: DataFrame.to_sql(chunksize=100) in                     *)
(* load_jobs_to_database and the batches of 100 of load_job_skills.        *)
(* Rows are counted; a chunk is named by its index.                        *)
(***************************************************************************)
\* chunksize=100 of to_sql, batch_size = 100 of load_job_skills
ChunkSize == 100

\* number of chunks of n rows and the length of chunk i
chunks_of(n) == (n + ChunkSize - 1) \div ChunkSize
chunk_len(n, i) == IF i < chunks_of(n) THEN ChunkSize ELSE n - (i - 1) * ChunkSize

RECURSIVE rows_in(_, _)
rows_in(n, chunkset) ==
    IF chunkset = {} THEN 0
    ELSE LET i == CHOOSE x \in chunkset : TRUE
         IN chunk_len(n, i) + rows_in(n, chunkset \ {i})

\* to_sql: every chunk is executed inside one transaction; the first chunk
\* whose INSERT fails raises, the transaction is rolled back
to_sql(n, failing) ==
    IF failing \cap (1..chunks_of(n)) # {}
    THEN [raised |-> TRUE, committed |-> {}]
    ELSE [raised |-> FALSE, committed |-> 1..chunks_of(n)]

\* the tail of load_jobs_to_database on n new records
load_new_records(n, failing) ==
    IF n = 0 THEN [ret |-> 0, committed |-> {}]
    ELSE LET r == to_sql(n, failing) IN
         IF r.raised THEN [ret |-> 0, committed |-> {}]
         ELSE [ret |-> n, committed |-> r.committed]

\* the batch loop of load_job_skills from batch i on: add_all and commit,
\* rollback and go on when they raise
RECURSIVE skill_batches(_, _, _)
skill_batches(n, failing, i) ==
    IF i > chunks_of(n) THEN [total_loaded |-> 0, committed |-> {}]
    ELSE LET rest == skill_batches(n, failing, i + 1) IN
         IF i \in failing THEN rest
         ELSE [total_loaded |-> chunk_len(n, i) + rest.total_loaded,
               committed |-> {i} \cup rest.committed]

load_job_skills(n, failing) ==
    IF n = 0 THEN [ret |-> 0, committed |-> {}]
    ELSE LET r == skill_batches(n, failing, 1) IN
         [ret |-> r.total_loaded, committed |-> r.committed]

RowCounts == 0..(MaxChunks * ChunkSize)
FailingSets == SUBSET (1..MaxChunks)

LoadNewRecords(n, failing) ==
    LET r == load_new_records(n, failing) IN
    /\ kLog.fn = "none"
    /\ kJobs' = kJobs \cup r.committed
    /\ kLog' = [fn |-> "load_jobs_to_database", n |-> n, failing |-> failing,
                ret |-> r.ret]
    /\ UNCHANGED kSkills

LoadJobSkills(n, failing) ==
    LET r == load_job_skills(n, failing) IN
    /\ kLog.fn = "none"
    /\ kSkills' = kSkills \cup r.committed
    /\ kLog' = [fn |-> "load_job_skills", n |-> n, failing |-> failing,
                ret |-> r.ret]
    /\ UNCHANGED kJobs

InitChunks ==
    /\ DbIdle
    /\ FsIdle
    /\ ColIdle
    /\ RunIdle
    /\ ConnIdle
    /\ CredIdle
    /\ NormIdle
    /\ ChunkIdle

NextChunks ==
    \/ \E n \in RowCounts, failing \in FailingSets :
          LoadNewRecords(n, failing) /\ UNCHANGED <<dbVars, fsVars, colVars, runVars, normVars, credVars, connVars>>
    \/ \E n \in RowCounts, failing \in FailingSets :
          LoadJobSkills(n, failing) /\ UNCHANGED <<dbVars, fsVars, colVars, runVars, normVars, credVars, connVars>>

SpecChunks == InitChunks /\ [][NextChunks]_vars

(***************************************************************************)
(* Field normalizers.  Python values are records [t, s]: t the type, s the *)
(* text of a str.  Texts are strings; "x in text" is substring search.     *)
(***************************************************************************)
PyNone == [t |-> "None", s |-> ""]
Str(s) == [t |-> "str", s |-> s]
PyInt == [t |-> "int", s |-> ""]
PyNaN == [t |-> "float", s |-> ""]
PyDict == [t |-> "dict", s |-> ""]

\* values that are not text: None, a number, NaN of an empty cell, an object
NonStrings == {PyNone, PyInt, PyNaN, PyDict}

\* isinstance(x, str) and the truth value of x
is_str(x) == x.t = "str"
truthy(x) == IF x.t = "None" THEN FALSE ELSE IF x.t = "str" THEN x.s # "" ELSE TRUE

\* kw in text
Contains(text, kw) ==
    \E i \in 1..(Len(text) - Len(kw) + 1) : SubSeq(text, i, i + Len(kw) - 1) = kw

\* any(kw in text for kw in kws)
AnyIn(text, kws) == \E k \in 1..Len(kws) : Contains(text, kws[k])

UpperChars == "ABCDEFGHIJKLMNOPQRSTUVWXYZÉÈÀÇ"
LowerChars == "abcdefghijklmnopqrstuvwxyzéèàç"

lower_char(c) ==
    IF \E i \in 1..Len(UpperChars) : SubSeq(UpperChars, i, i) = c
    THEN LET i == CHOOSE i \in 1..Len(UpperChars) : SubSeq(UpperChars, i, i) = c
         IN SubSeq(LowerChars, i, i)
    ELSE c

\* str.lower()
RECURSIVE lower(_)
lower(s) ==
    IF Len(s) = 0 THEN ""
    ELSE lower_char(SubSeq(s, 1, 1)) \o lower(SubSeq(s, 2, Len(s)))

\* str.strip()
RECURSIVE strip(_)
strip(s) ==
    IF Len(s) = 0 THEN ""
    ELSE IF SubSeq(s, 1, 1) = " " THEN strip(SubSeq(s, 2, Len(s)))
    ELSE IF SubSeq(s, Len(s), Len(s)) = " " THEN strip(SubSeq(s, 1, Len(s) - 1))
    ELSE s

\* " ".join(words)
RECURSIVE Join(_)
Join(words) ==
    IF Len(words) = 0 THEN ""
    ELSE IF Len(words) = 1 THEN words[1]
    ELSE words[1] \o " " \o Join(Tail(words))

\* the texts made of at most MaxWords of the phrases
Texts(phrases) == {Join(ws) : ws \in SeqsUpTo(phrases, MaxWords)}

(***************************************************************************)
(* Contract type: categorize_contract_type (API postings)                  *)
(***************************************************************************)
categorize_contract_type(contract_text) ==
    IF ~is_str(contract_text) THEN "UNKNOWN"
    ELSE LET text == lower(contract_text.s) IN
         IF Contains(text, "cdi") THEN "CDI"
         ELSE IF Contains(text, "cdd") THEN "CDD"
         ELSE IF Contains(text, "intérim") \/ Contains(text, "interim")
              THEN "INTERIM"
         ELSE IF Contains(text, "apprentissage") THEN "APPRENTICESHIP"
         ELSE IF Contains(text, "stage") THEN "INTERNSHIP"
         ELSE IF Contains(text, "freelance") \/ Contains(text, "indépendant")
              THEN "FREELANCE"
         ELSE IF Contains(text, "temps partiel") THEN "PART_TIME"
         ELSE IF Contains(text, "temps plein") THEN "FULL_TIME"
         ELSE "OTHER"

(***************************************************************************)
(* Contract type: normalize_contract_type (scraped postings)               *)
(***************************************************************************)
Keywords_CDI ==
    << "cdi", "indéterminé", "permanent", "indefinite", "full time",
       "temps plein", "permanent contract", "contrat à durée indéterminée",
       "open-ended", "long-term", "long term", "full-time", "fulltime",
       "permanent position", "poste permanent", "emploi permanent",
       "permanent job", "contrat permanent", "position permanente",
       "poste fixe", "poste à temps plein", "emploi à temps plein",
       "job permanent" >>

Keywords_CDD ==
    << "cdd", "déterminé", "determined", "fixed term", "temporary",
       "contrat à durée déterminée", "short-term", "short term",
       "contract duration", "durée du contrat", "interim", "intérim",
       "contrat temporaire", "temporary position", "poste temporaire",
       "emploi temporaire", "temporary job", "contrat à terme",
       "terme fixe", "fixed duration", "durée déterminée", "durée limitée",
       "limited duration", "limited term", "terme limité", "contrat limité",
       "contrat à durée limitée" >>

Keywords_STAGE ==
    << "stage", "stagiaire", "internship", "intern", "trainee",
       "training period", "période de formation", "période d'essai",
       "probation", "probationary", "stage conventionné", "stage étudiant",
       "student internship", "graduate internship", "stage de fin d'études",
       "stage de master", "stage de licence", "stage de bachelor",
       "stage de formation", "training internship", "stage professionnel",
       "professional internship", "stage rémunéré", "paid internship",
       "stage non rémunéré", "unpaid internship", "summer internship",
       "stage d'été" >>

Keywords_ALTERNANCE ==
    << "alternance", "apprentissage", "apprenti", "contrat pro",
       "professionnalisation", "work-study", "work study", "dual training",
       "formation en alternance", "formation alternée",
       "contrat d'apprentissage", "contrat de professionnalisation",
       "apprenticeship", "contrat en alternance", "alternant", "apprentice",
       "formation professionnelle", "professional training",
       "formation duale", "dual education", "étudiant alternant",
       "alternating student", "alternating training",
       "formation par alternance", "formation professionnelle alternée",
       "formation professionnalisante" >>

Keywords_FREELANCE ==
    << "freelance", "indépendant", "consultant", "contractor",
       "self-employed", "auto-entrepreneur", "free-lance",
       "travailleur indépendant", "prestataire", "external", "freelancer",
       "independent contractor", "contractuel", "contractual",
       "consultant externe", "external consultant",
       "consultant indépendant", "independent consultant",
       "travail indépendant", "independent work", "mission freelance",
       "freelance mission", "mission de consulting", "consulting mission",
       "prestation de service", "service provision", "prestation externe",
       "external service" >>

\* contract_keywords, in the order of the dict
contract_keywords ==
    << [std |-> "CDI", keywords |-> Keywords_CDI],
       [std |-> "CDD", keywords |-> Keywords_CDD],
       [std |-> "STAGE", keywords |-> Keywords_STAGE],
       [std |-> "ALTERNANCE", keywords |-> Keywords_ALTERNANCE],
       [std |-> "FREELANCE", keywords |-> Keywords_FREELANCE] >>

\* the loop over contract_keywords: the first type one of whose keywords is
\* in the text, "" when there is none
first_match(text) ==
    IF \E k \in 1..Len(contract_keywords) :
          AnyIn(text, contract_keywords[k].keywords)
    THEN LET k == CHOOSE k \in 1..Len(contract_keywords) :
                     /\ AnyIn(text, contract_keywords[k].keywords)
                     /\ \A j \in 1..(k - 1) :
                           ~AnyIn(text, contract_keywords[j].keywords)
         IN contract_keywords[k].std
    ELSE ""

PartTimeTerms ==
    << "temps partiel", "part time", "part-time", "mi-temps", "half-time" >>
InternTerms ==
    << "stage", "intern", "stagiaire", "internship" >>
SalesTerms ==
    << "vdi", "vendeur", "commercial", "sales", "vente", "business developer" >>
CommissionTerms ==
    << "indépendant", "commission", "commission-based" >>
StudentTerms ==
    << "étudiant", "student", "formation", "école", "school", "university",
       "université", "master", "bachelor", "licence", "bac+" >>
WorkStudyTerms ==
    << "alternance", "apprentissage", "apprenti", "work-study" >>
TemporaryTerms ==
    << "temporaire", "saisonnier", "seasonal", "mission", "project-based",
       "project based", "projet", "project", "durée limitée",
       "limited duration", "limited time" >>
ManagementTerms ==
    << "directeur", "director", "manager", "responsable", "head of",
       "chief", "senior", "lead", "executive" >>
TechnicalTerms ==
    << "ingénieur", "engineer", "developer", "développeur", "technicien",
       "technician", "analyst", "analyste" >>
TechnicalStudentTerms ==
    << "stage", "intern", "alternance", "apprenti" >>
NamedContractTerms ==
    << "cdd", "stage", "alternance", "freelance" >>

\* the rules after the keyword loop
special_cases(text) ==
    IF AnyIn(text, PartTimeTerms)
    THEN IF AnyIn(text, InternTerms) THEN "STAGE" ELSE "CDI"
    ELSE IF AnyIn(text, SalesTerms)
    THEN IF AnyIn(text, CommissionTerms) THEN "FREELANCE" ELSE "CDI"
    ELSE IF AnyIn(text, StudentTerms)
    THEN IF AnyIn(text, WorkStudyTerms) THEN "ALTERNANCE" ELSE "STAGE"
    ELSE IF AnyIn(text, TemporaryTerms) THEN "CDD"
    ELSE IF AnyIn(text, ManagementTerms) THEN "CDI"
    ELSE IF AnyIn(text, TechnicalTerms)
    THEN IF AnyIn(text, TechnicalStudentTerms)
         THEN IF Contains(text, "alternance") \/ Contains(text, "apprenti")
              THEN "ALTERNANCE" ELSE "STAGE"
         ELSE "CDI"
    ELSE IF Contains(text, "contrat") /\ ~AnyIn(text, NamedContractTerms)
    THEN "CDI"
    ELSE IF \/ Contains(text, "offre d'emploi")
            \/ Contains(text, "job offer")
            \/ Contains(text, "job opening")
    THEN "CDI"
    ELSE "OTHER"

\* combined_text
combined_text(contract_type, title) ==
    LET contract_info ==
            IF truthy(contract_type) /\ is_str(contract_type)
               /\ contract_type.s # "Type de contrat non disponible"
            THEN lower(contract_type.s) ELSE ""
        title_info ==
            IF truthy(title) /\ is_str(title) THEN lower(title.s) ELSE ""
    IN strip(contract_info \o " " \o title_info)

normalize_contract_type(contract_type, title) ==
    LET text == combined_text(contract_type, title) IN
    IF text = "" THEN "OTHER"
    ELSE IF first_match(text) # "" THEN first_match(text)
    ELSE special_cases(text)

\* raw contract texts and titles
ContractPhrases ==
    {"Stage de 6 mois", "stage", "temps plein", "temps partiel", "CDI",
     "apprentissage", "INTERNSHIP", "Data Analyst"}
ContractInputs == {Str(s) : s \in Texts(ContractPhrases)} \cup NonStrings
TitleInputs == {PyNone, Str("Data Analyst"), Str("Alternance temps plein")}

NoArg == [t |-> "absent", s |-> ""]

\* a call that returns out
Called(fn, x, title, out) ==
    /\ nFn = "none"
    /\ nFn' = fn
    /\ nIn' = <<x, title>>
    /\ nOut' = out
    /\ nRaised' = FALSE

CategorizeContractType(contract_text) ==
    Called("categorize_contract_type", contract_text, NoArg,
           categorize_contract_type(contract_text))

NormalizeContractType(contract_type, title) ==
    Called("normalize_contract_type", contract_type, title,
           normalize_contract_type(contract_type, title))

(***************************************************************************)
(* Characters and runs of characters, for the patterns of the regular      *)
(* expressions                                                             *)
(***************************************************************************)
Ch(s, i) == IF i >= 1 /\ i <= Len(s) THEN SubSeq(s, i, i) ELSE ""
DigitChars == "0123456789"
is_digit(c) == Len(c) = 1 /\ Contains(DigitChars, c)
is_space(c) == c = " "

\* int(c) of one digit
digit_value(c) == (CHOOSE i \in 1..10 : SubSeq(DigitChars, i, i) = c) - 1

\* int(s) of a string of digits
RECURSIVE int_of(_)
int_of(s) ==
    IF Len(s) = 0 THEN 0
    ELSE 10 * int_of(SubSeq(s, 1, Len(s) - 1)) + digit_value(Ch(s, Len(s)))

\* the index after the longest run of digits (of spaces, of spaces and
\* hyphens) that starts at i
RECURSIVE digits_end(_, _)
digits_end(s, i) == IF is_digit(Ch(s, i)) THEN digits_end(s, i + 1) ELSE i
RECURSIVE spaces_end(_, _)
spaces_end(s, i) == IF is_space(Ch(s, i)) THEN spaces_end(s, i + 1) ELSE i
RECURSIVE seps_end(_, _)
seps_end(s, i) == IF Ch(s, i) \in {" ", "-"} THEN seps_end(s, i + 1) ELSE i

\* the literal kw stands at i
At(s, i, kw) == i + Len(kw) - 1 <= Len(s) /\ SubSeq(s, i, i + Len(kw) - 1) = kw

\* the first index of c in s from i on, 0 when there is none
RECURSIVE index_from(_, _, _)
index_from(s, c, i) ==
    IF i > Len(s) THEN 0
    ELSE IF Ch(s, i) = c THEN i ELSE index_from(s, c, i + 1)

(***************************************************************************)
(* Location: normalize_location (scraped postings)                         *)
(***************************************************************************)
\* re.sub(r'\(.*?\)', '', s)
RECURSIVE remove_parentheses(_)
remove_parentheses(s) ==
    LET open == index_from(s, "(", 1)
        close == IF open = 0 THEN 0 ELSE index_from(s, ")", open + 1)
    IN IF close = 0 THEN s
       ELSE SubSeq(s, 1, open - 1)
            \o remove_parentheses(SubSeq(s, close + 1, Len(s)))

Cities ==
    << [kw |-> "paris", name |-> "Paris"], [kw |-> "lyon", name |-> "Lyon"],
       [kw |-> "marseille", name |-> "Marseille"],
       [kw |-> "toulouse", name |-> "Toulouse"],
       [kw |-> "bordeaux", name |-> "Bordeaux"],
       [kw |-> "lille", name |-> "Lille"], [kw |-> "nantes", name |-> "Nantes"],
       [kw |-> "strasbourg", name |-> "Strasbourg"],
       [kw |-> "montpellier", name |-> "Montpellier"],
       [kw |-> "nice", name |-> "Nice"] >>

normalize_location(location) ==
    IF ~truthy(location) \/ ~is_str(location) THEN "Télétravail / Remote"
    ELSE IF lower(location.s) = "lieu non disponible"
    THEN "Télétravail / Remote"
    ELSE LET cleaned == strip(remove_parentheses(strip(location.s)))
             location_lower == lower(cleaned)
         IN IF \E k \in 1..Len(Cities) : Contains(location_lower, Cities[k].kw)
            THEN Cities[CHOOSE k \in 1..Len(Cities) :
                           /\ Contains(location_lower, Cities[k].kw)
                           /\ \A j \in 1..(k - 1) :
                                 ~Contains(location_lower, Cities[j].kw)].name
            ELSE cleaned

LocationPhrases ==
    {"Paris", "(75)", "Rennes", "Lieu non disponible", "", "nice to have"}
LocationInputs == {Str(s) : s \in Texts(LocationPhrases)} \cup NonStrings

NormalizeLocation(location) ==
    Called("normalize_location", location, NoArg, normalize_location(location))

(***************************************************************************)
(* Experience: extract_experience_level (API postings)                     *)
(***************************************************************************)
extract_experience_level(description) ==
    IF ~is_str(description) THEN "NOT_SPECIFIED"
    ELSE LET text == lower(description.s) IN
         IF AnyIn(text, <<"débutant", "junior", "0-2 ans", "0 à 2 ans">>)
         THEN "ENTRY"
         ELSE IF AnyIn(text, <<"confirmé", "2-5 ans", "2 à 5 ans", "3 ans">>)
         THEN "MID"
         ELSE IF AnyIn(text, <<"senior", "5-10 ans", "5 à 10 ans",
                               "expérimenté">>)
         THEN "SENIOR"
         ELSE IF AnyIn(text, <<"expert", "+ de 10 ans", "plus de 10 ans">>)
         THEN "EXPERT"
         ELSE "NOT_SPECIFIED"

(***************************************************************************)
(* Experience: extract_experience (scraped postings)                       *)
(* The result (min_years, max_years, experience_level); NoYears is None.   *)
(***************************************************************************)
NoYears == -1
AllLevels == "Tous niveaux d'expérience"
Experience(min_years, max_years, level) == [min_years |-> min_years, max_years |-> max_years, level |-> level]

level_of(min_years) ==
    IF min_years < 2 THEN "JUNIOR"
    ELSE IF min_years >= 5 THEN "SENIOR" ELSE "CONFIRMED"

\* \s*an stands at i
years_word_at(s, i) == At(s, spaces_end(s, i), "an")

\* r'(\d+)[\s-]*(\d+)\s*an' tried at i: the two groups, or none.  The first
\* group takes the whole run of digits when separators and a second run
\* follow it; otherwise it gives its last digit to the second group.
range_pattern_at(s, i) ==
    LET e1 == digits_end(s, i)
        s2 == seps_end(s, e1)
        e2 == digits_end(s, s2)
    IN IF ~is_digit(Ch(s, i)) THEN <<>>
       ELSE IF s2 > e1 /\ e2 > s2 /\ years_word_at(s, e2)
       THEN <<SubSeq(s, i, e1 - 1), SubSeq(s, s2, e2 - 1)>>
       ELSE IF e1 - i >= 2 /\ years_word_at(s, e1)
       THEN <<SubSeq(s, i, e1 - 2), SubSeq(s, e1 - 1, e1 - 1)>>
       ELSE <<>>

\* r'(\d+)\+?\s*an' tried at i
minimum_pattern_at(s, i) ==
    LET e1 == digits_end(s, i)
        plus == IF Ch(s, e1) = "+" THEN e1 + 1 ELSE e1
    IN IF ~is_digit(Ch(s, i)) THEN <<>>
       ELSE IF years_word_at(s, plus) \/ years_word_at(s, e1)
       THEN <<SubSeq(s, i, e1 - 1)>>
       ELSE <<>>

\* r'minimum\s*(\d+)\s*an' and r'au moins\s*(\d+)\s*an' tried at i
worded_pattern_at(s, i, word) ==
    LET d == spaces_end(s, i + Len(word))
        e1 == digits_end(s, d)
    IN IF At(s, i, word) /\ e1 > d /\ years_word_at(s, e1)
       THEN <<SubSeq(s, d, e1 - 1)>>
       ELSE <<>>

\* the four patterns, in the order of the list
pattern_at(p, s, i) ==
    IF p = 1 THEN range_pattern_at(s, i)
    ELSE IF p = 2 THEN minimum_pattern_at(s, i)
    ELSE IF p = 3 THEN worded_pattern_at(s, i, "minimum")
    ELSE worded_pattern_at(s, i, "au moins")

\* re.search(pattern, s).groups(): the leftmost match, or none
search(p, s) ==
    IF \E i \in 1..Len(s) : pattern_at(p, s, i) # <<>>
    THEN pattern_at(p, s, CHOOSE i \in 1..Len(s) :
                             /\ pattern_at(p, s, i) # <<>>
                             /\ \A j \in 1..(i - 1) : pattern_at(p, s, j) = <<>>)
    ELSE <<>>

\* the loop over the patterns
years_of(s) ==
    IF \E p \in 1..4 : search(p, s) # <<>>
    THEN LET p == CHOOSE p \in 1..4 :
                     /\ search(p, s) # <<>>
                     /\ \A q \in 1..(p - 1) : search(q, s) = <<>>
             groups == search(p, s)
         IN IF Len(groups) = 2
            THEN Experience(int_of(groups[1]), int_of(groups[2]),
                            level_of(int_of(groups[1])))
            ELSE Experience(int_of(groups[1]), NoYears,
                            level_of(int_of(groups[1])))
    ELSE Experience(NoYears, NoYears, AllLevels)

\* the level words looked for before the patterns
level_words_first(s) ==
    IF AnyIn(s, <<"junior", "débutant", "debutant", "entry">>)
    THEN Experience(0, 2, "JUNIOR")
    ELSE IF AnyIn(s, <<"senior", "expert", "confirmé", "confirmée",
                       "experienced">>)
    THEN Experience(5, NoYears, "SENIOR")
    ELSE IF AnyIn(s, <<"mid", "intermédiaire", "intermediaire", "confirmé",
                       "confirmée">>)
    THEN Experience(2, 5, "CONFIRMED")
    ELSE Experience(NoYears, NoYears, "")

\* the experience read from the title
title_inference(title) ==
    IF truthy(title) /\ is_str(title)
    THEN LET title_lower == lower(title.s) IN
         IF Contains(title_lower, "junior") THEN Experience(0, 2, "JUNIOR")
         ELSE IF Contains(title_lower, "senior") \/ Contains(title_lower, "expert")
         THEN Experience(5, NoYears, "SENIOR")
         ELSE IF AnyIn(title_lower, <<"confirmé", "confirmée", "mid">>)
         THEN Experience(2, 5, "CONFIRMED")
         ELSE Experience(NoYears, NoYears, AllLevels)
    ELSE Experience(NoYears, NoYears, AllLevels)

extract_experience(experience, title) ==
    IF ~truthy(experience) \/ ~is_str(experience)
    THEN title_inference(title)
    ELSE IF lower(experience.s) = "expérience non spécifiée"
    THEN title_inference(title)
    ELSE LET experience_lower == lower(experience.s) IN
         IF level_words_first(experience_lower).level # ""
         THEN level_words_first(experience_lower)
         ELSE years_of(experience_lower)

ExperiencePhrases ==
    {"senior", "junior", "2-5 ans", "5 ans", "10 ans", "minimum 3 ans",
     "7+ ans", "Profil", "Expérience non spécifiée"}
ExperienceInputs == {Str(s) : s \in Texts(ExperiencePhrases)} \cup NonStrings
ExperienceTitles == {PyNone, Str("Data Analyst"), Str("Senior Data Engineer")}

ExtractExperienceLevel(description) ==
    Called("extract_experience_level", description, NoArg,
           extract_experience_level(description))

ExtractExperience(experience, title) ==
    Called("extract_experience", experience, title,
           extract_experience(experience, title))

(***************************************************************************)
(* Salary: extract_salary_info (scraped postings)                          *)
(* A float is held in thousandths; NoNumber and "None" are None.           *)
(***************************************************************************)
NoNumber == -1

\* the characters U+20AC (euro sign) and U+2013 (en dash) of the source are
\* written with two characters of Latin-1
EuroSign == "¤"
EnDash == "¬"
Salary(min_salary, max_salary, currency, period) == [min_salary |-> min_salary, max_salary |-> max_salary, salary_currency |-> currency, salary_period |-> period]

\* s.replace(c, '')
RECURSIVE remove_chars(_, _)
remove_chars(s, cs) ==
    IF Len(s) = 0 THEN ""
    ELSE (IF Ch(s, 1) \in cs THEN "" ELSE Ch(s, 1))
         \o remove_chars(SubSeq(s, 2, Len(s)), cs)

\* the first three decimals of a string of digits, as thousandths
thousandths(frac) == int_of(SubSeq(frac \o "000", 1, 3))

\* float(g.replace(' ', '').replace(',', '.')) of a match of \d+[\s,.]?\d*
float_of(g) ==
    LET t == remove_chars(g, {" "})
        e1 == digits_end(t, 1)
    IN IF Ch(t, e1) \in {",", "."}
       THEN 1000 * int_of(SubSeq(t, 1, e1 - 1))
            + thousandths(SubSeq(t, e1 + 1, Len(t)))
       ELSE 1000 * int_of(t)

\* \d+[\s,.]?\d* tried at i: the index after the match, i when it fails
number_end(s, i) ==
    LET e1 == digits_end(s, i) IN
    IF e1 = i THEN i
    ELSE IF Ch(s, e1) \in {" ", ",", "."} THEN digits_end(s, e1 + 1)
    ELSE e1

\* r'(\d+)\s*[/]\s*(\d+)' tried at i: the second group, "" when it fails
hourly_at(s, i) ==
    LET e1 == digits_end(s, i)
        slash == spaces_end(s, e1)
        d2 == spaces_end(s, slash + 1)
    IN IF e1 > i /\ Ch(s, slash) = "/" /\ is_digit(Ch(s, d2))
       THEN SubSeq(s, d2, digits_end(s, d2) - 1)
       ELSE ""

WeeklyHours == {35, 37, 38, 39, 40, 42}

\* r'(\d+[\s,.]?\d*)\s*[-\u2013à]\s*(\d+[\s,.]?\d*)' tried at i: the two groups
range_at(s, i) ==
    LET e1 == number_end(s, i)
        dash == spaces_end(s, e1)
        d2 == spaces_end(s, dash + 1)
        e2 == number_end(s, d2)
    IN IF e1 > i /\ Ch(s, dash) \in {"-", EnDash, "à"} /\ e2 > d2
       THEN <<SubSeq(s, i, e1 - 1), SubSeq(s, d2, e2 - 1)>>
       ELSE <<>>

\* re.search of the three patterns: the leftmost index at which the pattern
\* matches, 0 when there is none
hourly_search(s) ==
    IF \E i \in 1..Len(s) : hourly_at(s, i) # ""
    THEN CHOOSE i \in 1..Len(s) :
             hourly_at(s, i) # "" /\ \A j \in 1..(i - 1) : hourly_at(s, j) = ""
    ELSE 0
range_search(s) ==
    IF \E i \in 1..Len(s) : range_at(s, i) # <<>>
    THEN CHOOSE i \in 1..Len(s) :
             range_at(s, i) # <<>> /\ \A j \in 1..(i - 1) : range_at(s, j) = <<>>
    ELSE 0
number_search(s) ==
    IF \E i \in 1..Len(s) : number_end(s, i) > i
    THEN CHOOSE i \in 1..Len(s) :
             number_end(s, i) > i /\ \A j \in 1..(i - 1) : number_end(s, j) = j
    ELSE 0

\* "Convertir les valeurs en k": the value, multiplied when the text holds
\* a k anywhere and the value is below 1000
times_k(salary_text, value) ==
    IF Contains(salary_text, "k") /\ value < 1000 * 1000 THEN value * 1000
    ELSE value

\* "Déduction de la période si non spécifiée"
period_of(period, value) ==
    IF period # "None" THEN period
    ELSE IF value < 100 * 1000 THEN "HOURLY"
    ELSE IF value < 10000 * 1000 THEN "MONTHLY"
    ELSE "YEARLY"

NegotiableTexts ==
    {"à négocier", "negotiable", "à discuter", "selon profil",
     "selon expérience", "competitive"}

currency_of(salary_text) ==
    IF AnyIn(salary_text, <<EuroSign, "eur", "euro">>) THEN "EUR"
    ELSE IF AnyIn(salary_text, <<"$", "usd", "dollar">>) THEN "USD"
    ELSE IF AnyIn(salary_text, <<"£", "gbp", "livre">>) THEN "GBP"
    ELSE "None"

detected_period(salary_text) ==
    IF AnyIn(salary_text, <<"an", "année", "year", "annual", "annuel", "/an",
                            "/year", "par an", "per year">>)
    THEN "YEARLY"
    ELSE IF AnyIn(salary_text, <<"mois", "month", "mensuel", "monthly",
                                 "/mois", "/month", "par mois", "per month">>)
    THEN "MONTHLY"
    ELSE IF AnyIn(salary_text, <<"jour", "day", "daily", "journalier",
                                 "/jour", "/day", "par jour", "per day">>)
    THEN "DAILY"
    ELSE IF AnyIn(salary_text, <<"heure", "hour", "hourly", "horaire",
                                 "/heure", "/hour", "par heure", "per hour",
                                 "/40", "/35", "/39">>)
    THEN "HOURLY"
    ELSE IF AnyIn(salary_text, <<"semaine", "week", "hebdomadaire", "weekly",
                                 "/semaine", "/week", "par semaine",
                                 "per week">>)
    THEN "WEEKLY"
    ELSE "None"

extract_salary_info(raw) ==
    IF ~truthy(raw) \/ ~is_str(raw)
    THEN Salary(NoNumber, NoNumber, "None", "None")
    ELSE
    LET salary_text == strip(lower(raw.s))
        currency == currency_of(salary_text)
        period == detected_period(salary_text)
        clean_text == remove_chars(salary_text, {EuroSign, "$", "£"})
        h == hourly_search(clean_text)
        r == range_search(clean_text)
        n == number_search(clean_text)
    IN
    IF salary_text \in NegotiableTexts
    THEN Salary(NoNumber, NoNumber, "None", "NEGOTIABLE")
    ELSE IF h # 0 /\ int_of(hourly_at(clean_text, h)) \in WeeklyHours
    THEN Salary(NoNumber, NoNumber, "None", "HOURLY")
    ELSE IF r # 0
    THEN LET groups == range_at(clean_text, r)
             min_salary == times_k(salary_text, float_of(groups[1]))
             max_salary == times_k(salary_text, float_of(groups[2]))
         IN Salary(min_salary, max_salary, currency,
                   period_of(period, min_salary))
    ELSE IF n # 0
    THEN LET g == SubSeq(clean_text, n, number_end(clean_text, n) - 1)
             salary_value == times_k(salary_text, float_of(g))
         IN Salary(salary_value, NoNumber, currency,
                   period_of(period, salary_value))
    ELSE Salary(NoNumber, NoNumber, currency, period)

SalaryPhrases ==
    {"30k - 40k", "30-40k", "30 - 40", "35", "per week", "45k",
     "par an", EuroSign, "1500k", "37/40", "Selon profil"}
SalaryInputs == {Str(s) : s \in Texts(SalaryPhrases)} \cup NonStrings

ExtractSalaryInfo(salary_text) ==
    Called("extract_salary_info", salary_text, NoArg,
           extract_salary_info(salary_text))

(***************************************************************************)
(* Location of the API postings: extract_location_data and the nested      *)
(* extract_country_and_location of transform_job_dataframe.                *)
(* A lieuTravail object is a dict of which the keys libelle, commune,      *)
(* codePostal, latitude and longitude are read; NoArg is a missing key.    *)
(***************************************************************************)
Lieu(libelle, commune, codePostal) == [t |-> "dict", s |-> "", libelle |-> libelle, commune |-> commune, codePostal |-> codePostal, latitude |-> NoArg, longitude |-> NoArg]
EmptyDict == Lieu(NoArg, NoArg, NoArg)

\* d.get(key) and d.get(key, '')
Get(d, key) == IF d[key] = NoArg THEN PyNone ELSE d[key]
GetOr(d, key) == IF d[key] = NoArg THEN Str("") ELSE d[key]

\* "if not location_obj"
falsy_location(x) == IF x.t = "dict" THEN x = EmptyDict ELSE ~truthy(x)

\* str.isdigit and str.zfill(2)
all_digits(s) == Len(s) > 0 /\ \A i \in 1..Len(s) : is_digit(Ch(s, i))
zfill2(s) == IF Len(s) < 2 THEN SubSeq("00", 1, 2 - Len(s)) \o s ELSE s

\* the first index at which sub stands in s, 0 when there is none
find(s, sub) ==
    IF \E i \in 1..Len(s) : At(s, i, sub)
    THEN CHOOSE i \in 1..Len(s) : At(s, i, sub) /\ \A j \in 1..(i - 1) : ~At(s, j, sub)
    ELSE 0

\* json.loads succeeds on a text without quote, bracket, sign and point:
\* the text is an integer literal or one of the named constants
json_decodes(s) ==
    LET t == strip(s) IN
    \/ t \in {"null", "true", "false", "NaN", "Infinity"}
    \/ all_digits(t) /\ (Len(t) = 1 \/ Ch(t, 1) # "0")

LocationData(city, postal_code, department, region, location_full) == [city |-> city, postal_code |-> postal_code, department |-> department, region |-> region, country |-> PyNone, latitude |-> PyNone, longitude |-> PyNone, location_full |-> location_full]
NoLocation == LocationData(PyNone, PyNone, PyNone, PyNone, PyNone)

\* a string that is not JSON: the whole text is the label, and
\* r'^(\d{1,2})\s*-\s*(.+)$' gives the department and the city
location_of_label(s) ==
    LET e1 == digits_end(s, 1)
        dash == spaces_end(s, e1)
        full == [NoLocation EXCEPT !.location_full = Str(s)]
    IN IF e1 - 1 \in {1, 2} /\ Ch(s, dash) = "-" /\ Len(s) > dash
       THEN [full EXCEPT !.department = Str(zfill2(SubSeq(s, 1, e1 - 1))),
                         !.city = Str(strip(SubSeq(s, dash + 1, Len(s))))]
       ELSE full

\* "Extraire la région depuis le libellé", the last step of the dict branch
region_of(data, libelle) ==
    LET cut == find(libelle, " - ") IN
    IF cut # 0 /\ cut - 1 <= 3
    THEN [data EXCEPT !.region = Str(strip(SubSeq(libelle, cut + 3, Len(libelle))))]
    ELSE data

\* the dict branch: the fields are set one after the other, and an exception
\* (caught by the except clause of the function) returns what was set so far
location_of_dict(d) ==
    LET libelle == GetOr(d, "libelle")
        s0 == [NoLocation EXCEPT !.location_full = libelle]
    IN
    IF libelle = Str("France")
    THEN [s0 EXCEPT !.city = Str("France"), !.region = Str("France")]
    ELSE IF ~is_str(libelle) THEN s0  \* ' - ' in libelle: TypeError
    ELSE
    LET cut == find(libelle.s, " - ")
        dept_code == IF cut = 0 THEN "" ELSE strip(SubSeq(libelle.s, 1, cut - 1))
        s1 == IF cut = 0 THEN s0
              ELSE [s0 EXCEPT
                      !.city = Str(strip(SubSeq(libelle.s, cut + 3, Len(libelle.s)))),
                      !.department =
                          IF all_digits(dept_code)
                             \/ (Len(dept_code) = 2 /\ is_digit(Ch(dept_code, 1)))
                          THEN Str(IF Len(dept_code) <= 2 THEN zfill2(dept_code)
                                   ELSE dept_code)
                          ELSE PyNone]
        commune == GetOr(d, "commune")
        use_commune == ~truthy(s1.city) /\ truthy(commune)
    IN
    IF use_commune /\ ~is_str(commune) THEN s1  \* commune.isdigit: AttributeError
    ELSE
    LET s2 == IF use_commune
                 /\ ~(\/ all_digits(commune.s)
                      \/ Len(commune.s) = 5 /\ all_digits(SubSeq(commune.s, 1, 2)))
              THEN [s1 EXCEPT !.city = commune] ELSE s1
        postal == GetOr(d, "codePostal")
        s3 == [s2 EXCEPT !.postal_code = postal,
                         !.latitude = Get(d, "latitude"),
                         !.longitude = Get(d, "longitude")]
    IN
    IF ~truthy(postal) THEN region_of(s3, libelle.s)
    ELSE IF ~is_str(postal) THEN s3  \* len(postal_code): TypeError
    ELSE IF Len(postal.s) < 2 THEN region_of(s3, libelle.s)
    ELSE
    LET s4 == [s3 EXCEPT !.department = Str(SubSeq(postal.s, 1, 2))] IN
    IF ~At(postal.s, 1, "20") THEN region_of(s4, libelle.s)
    ELSE IF ~all_digits(postal.s) THEN s4  \* int(postal_code): ValueError
    ELSE region_of([s4 EXCEPT !.department =
                        Str(IF 20200 <= int_of(postal.s) /\ int_of(postal.s) < 20620
                            THEN "2A" ELSE "2B")],
                   libelle.s)

extract_location_data(location_obj) ==
    IF falsy_location(location_obj) THEN NoLocation
    ELSE IF is_str(location_obj)
    THEN IF json_decodes(location_obj.s) THEN NoLocation
         ELSE location_of_label(location_obj.s)
    ELSE IF location_obj.t = "dict" THEN location_of_dict(location_obj)
    ELSE NoLocation

countries_list ==
    {"France", "Italie", "Espagne", "Allemagne", "Belgique", "Suisse",
     "Japon", "Royaume-Uni", "Portugal", "Luxembourg", "Pays-Bas",
     "Autriche", "Danemark", "Suède", "Finlande", "Norvège",
     "Irlande", "Grèce", "Pologne", "République tchèque", "Hongrie",
     "Roumanie", "Bulgarie", "Croatie", "Slovénie", "Slovaquie",
     "Estonie", "Lettonie", "Lituanie", "Chypre", "Malte",
     "Canada", "États-Unis", "Mexique", "Brésil", "Argentine",
     "Chili", "Colombie", "Pérou", "Venezuela", "Chine",
     "Inde", "Indonésie", "Corée du Sud", "Australie", "Nouvelle-Zélande",
     "Afrique du Sud", "Maroc", "Tunisie", "Algérie", "Égypte"}

regions_list ==
    {"Île-de-France", "Guadeloupe", "Martinique", "Guyane", "La Réunion",
     "Mayotte", "Nouvelle-Aquitaine", "Occitanie", "Provence-Alpes-Côte d'Azur",
     "Grand Est", "Hauts-de-France", "Normandie", "Bretagne",
     "Pays de la Loire", "Centre-Val de Loire", "Bourgogne-Franche-Comté",
     "Auvergne-Rhône-Alpes", "Corse", "Rhône-Alpes"}

libelle_normalization(libelle) ==
    CASE libelle = "Ile-de-France" -> "Île-de-France"
      [] libelle = "Suisse (Frontalier)" -> "Suisse"
      [] libelle = "Rhone-Alpes" -> "Rhône-Alpes"
      [] libelle = "Etats-Unis" -> "États-Unis"
      [] libelle = "Egypte" -> "Égypte"
      [] libelle = "Perou" -> "Pérou"
      [] OTHER -> libelle

\* r'^([^(]+)\s*\([^)]*\)\s*$': the stripped text before the first
\* parenthesis, "" when the pattern does not match
before_parenthesis(s) ==
    LET open == index_from(s, "(", 1)
        close == index_from(s, ")", open + 1)
    IN IF open > 1 /\ close # 0 /\ strip(SubSeq(s, close + 1, Len(s))) = ""
       THEN strip(SubSeq(s, 1, open - 1))
       ELSE ""

Country(country, is_country) == [country |-> country, is_country |-> is_country]
Raised == [raised |-> TRUE]

\* extract_country_and_location(row), on row['lieuTravail_clean']
extract_country_and_location(clean) ==
    IF clean.t = "dict" /\ clean.libelle # NoArg
    THEN IF ~is_str(clean.libelle) THEN Raised  \* re.match(..., libelle): TypeError
         ELSE LET normalized == libelle_normalization(clean.libelle.s)
                  libelle == IF before_parenthesis(normalized) # ""
                             THEN before_parenthesis(normalized) ELSE normalized
              IN IF libelle \in countries_list THEN Country(libelle, TRUE)
                 ELSE IF libelle \in regions_list THEN Country("France", FALSE)
                 ELSE Country("France", FALSE)
    ELSE Country("France", FALSE)

LibellePhrases == {"France", "Suisse (Frontalier)", "35 - Rennes", "Bretagne", "35"}
LibelleValues == {NoArg, PyNone, PyInt} \cup {Str(s) : s \in Texts(LibellePhrases)}
CommuneValues == {NoArg, PyInt, Str("Rennes"), Str("35238")}
CodePostalValues == {NoArg, PyInt, Str("35000"), Str("20200"), Str("20abc")}
Lieux ==
    {Lieu(libelle, commune, codePostal) :
        libelle \in LibelleValues, commune \in CommuneValues,
        codePostal \in CodePostalValues}
LocationObjects ==
    Lieux \cup {PyNone, PyInt, PyNaN} \cup {Str(s) : s \in Texts(LibellePhrases)}

ExtractLocationData(location_obj) ==
    Called("extract_location_data", location_obj, NoArg,
           extract_location_data(location_obj))

\* the call raises, or returns the country
ExtractCountryAndLocation(clean) ==
    LET out == extract_country_and_location(clean) IN
    /\ nFn = "none"
    /\ nFn' = "extract_country_and_location"
    /\ nIn' = <<clean, NoArg>>
    /\ nOut' = out
    /\ nRaised' = (out = Raised)

InitNorm ==
    /\ DbIdle
    /\ FsIdle
    /\ ColIdle
    /\ RunIdle
    /\ ConnIdle
    /\ CredIdle
    /\ ChunkIdle
    /\ NormIdle

NextNorm ==
    \/ \E x \in ContractInputs :
          CategorizeContractType(x) /\ UNCHANGED <<dbVars, fsVars, colVars, runVars, chunkVars, credVars, connVars>>
    \/ \E x \in ContractInputs, title \in TitleInputs :
          NormalizeContractType(x, title) /\ UNCHANGED <<dbVars, fsVars, colVars, runVars, chunkVars, credVars, connVars>>
    \/ \E x \in LocationInputs :
          NormalizeLocation(x) /\ UNCHANGED <<dbVars, fsVars, colVars, runVars, chunkVars, credVars, connVars>>
    \/ \E x \in ExperienceInputs :
          ExtractExperienceLevel(x) /\ UNCHANGED <<dbVars, fsVars, colVars, runVars, chunkVars, credVars, connVars>>
    \/ \E x \in SalaryInputs :
          ExtractSalaryInfo(x) /\ UNCHANGED <<dbVars, fsVars, colVars, runVars, chunkVars, credVars, connVars>>
    \/ \E x \in ExperienceInputs, title \in ExperienceTitles :
          ExtractExperience(x, title) /\ UNCHANGED <<dbVars, fsVars, colVars, runVars, chunkVars, credVars, connVars>>
    \/ \E x \in LocationObjects :
          ExtractLocationData(x) /\ UNCHANGED <<dbVars, fsVars, colVars, runVars, chunkVars, credVars, connVars>>
    \/ \E x \in Lieux \cup {PyNone} :
          ExtractCountryAndLocation(x) /\ UNCHANGED <<dbVars, fsVars, colVars, runVars, chunkVars, credVars, connVars>>

SpecNorm == InitNorm /\ [][NextNorm]_vars

Configurations == SUBSET (S3Credentials \cup DbCredentials \cup {"DB_HOST"})

InitCreds ==
    /\ DbIdle
    /\ FsIdle
    /\ ColIdle
    /\ RunIdle
    /\ ConnIdle
    /\ ChunkIdle
    /\ NormIdle
    /\ gConfig \in Configurations
    /\ gEnviron = environ_of(gConfig)
    /\ gLog = NoCredCall

NextCreds ==
    \/ SetupEnvironment /\ UNCHANGED <<dbVars, fsVars, colVars, runVars, chunkVars, normVars, connVars>>
    \/ \E head_bucket \in HeadBucket :
          GetS3Client(head_bucket) /\ UNCHANGED <<dbVars, fsVars, colVars, runVars, chunkVars, normVars, connVars>>
    \/ \E head_bucket \in HeadBucket, listing \in Listings :
          ListS3Files(head_bucket, listing) /\ UNCHANGED <<dbVars, fsVars, colVars, runVars, chunkVars, normVars, connVars>>
    \/ \E connects \in BOOLEAN :
          GetDbConnection(connects) /\ UNCHANGED <<dbVars, fsVars, colVars, runVars, chunkVars, normVars, connVars>>

SpecCreds == InitCreds /\ [][NextCreds]_vars

InitLoad ==
    /\ \/ /\ tableExists = FALSE
          /\ tableCols = {}
          /\ tablePK = FALSE
          /\ rows = <<>>
       \/ \E s \in ExistingSchemas :
             /\ tableExists = TRUE
             /\ tableCols = s.cols
             /\ tablePK = s.pk
             /\ rows \in {<<>>, <<[id |-> "j1", cols |-> s.cols]>>}
    /\ jobsSchema \in {"absent", "url_unique", "other"}
    /\ jobsRows = <<>>
    /\ loadLog = NoCall
    /\ FsIdle
    /\ ColIdle
    /\ RunIdle
    /\ ConnIdle
    /\ CredIdle
    /\ NormIdle
    /\ ChunkIdle

NextLoad ==
    \/ \E df \in DataFrames, fault \in LoadFaults :
          LoadJobsToDatabase(df, fault) /\ UNCHANGED <<fsVars, colVars, runVars, chunkVars, normVars, credVars, connVars>>
    \/ \E fault \in CreateFaults :
          CreateJobsTable(fault) /\ UNCHANGED <<fsVars, colVars, runVars, chunkVars, normVars, credVars, connVars>>
    \/ \E urls \in UrlFrames, fault \in RdsFaults :
          LoadJobsToRds(urls, fault) /\ UNCHANGED <<fsVars, colVars, runVars, chunkVars, normVars, credVars, connVars>>

SpecLoad == InitLoad /\ [][NextLoad]_vars

(***************************************************************************)
(* Loader: properties                                                      *)
(***************************************************************************)
DistinctIds(ids) == {ids[i] : i \in 1..Len(ids)}

\* two consecutive load_jobs_to_database calls were given the same batch
SameBatchTwice ==
    /\ loadLog.n >= 2
    /\ Len(loadLog.df) > 0
    /\ loadLog.sameAsPrev

C2_InsertsExactlyTheNewIds ==
    loadLog.ok =>
        LET N == Cardinality(DistinctIds(loadLog.df))
            K == Cardinality(DistinctIds(loadLog.df) \cap loadLog.preIds)
        IN loadLog.inserted = N - K /\ loadLog.ret = N - K

C2_Witness ==
    /\ loadLog.ok
    /\ Cardinality(DistinctIds(loadLog.df)) = 2
    /\ Cardinality(DistinctIds(loadLog.df) \cap loadLog.preIds) = 1
    /\ loadLog.inserted = 1 /\ loadLog.ret = 1

\* C3: after any sequence of loads the france_travail_jobs table holds at
\* most one row per id and the jobs table at most one row per url.
C3_AtMostOneRowPerId ==
    /\ \A i, j \in 1..Len(rows) : rows[i].id = rows[j].id => i = j
    /\ \A i, j \in 1..Len(jobsRows) :
           jobsRows[i].url = jobsRows[j].url => i = j

C3_Witness ==
    /\ loadLog.n >= 2
    /\ ~tablePK
    /\ Len(rows) >= 2
    /\ loadLog.ok /\ loadLog.inserted > 0 /\ loadLog.inserted < Len(loadLog.df)
    /\ Len(jobsRows) = 2

(***************************************************************************)
(* Extraction claims                                                       *)
(***************************************************************************)
PathSet(paths) == {paths[i] : i \in 1..Len(paths)}

\* the value of a part made of digits, and the parts that are date tokens
DigitVal(c) == CHOOSE v \in 0..9 :
                  <<"0", "1", "2", "3", "4", "5", "6", "7", "8", "9">>[v + 1] = c

RECURSIVE DateNum(_)
DateNum(part) ==
    IF Len(part) = 0 THEN 0
    ELSE 10 * DateNum(SubSeq(part, 1, Len(part) - 1)) + DigitVal(part[Len(part)])

Tokens(name) ==
    {split(name)[k] :
        k \in {j \in 1..Len(split(name)) :
                  /\ Len(split(name)[j]) = 8
                  /\ \A c \in Range(split(name)[j]) : c \in Digit}}

CarriesTokenIn(name, start_date, end_date) ==
    \E d \in Tokens(name) :
        DateNum(start_date) <= DateNum(d) /\ DateNum(d) <= DateNum(end_date)

\* the names the call had to choose among, and those it selected: read, or
\* asked from the bucket
CandidateNames ==
    {p.name : p \in Range(exLog.local_listing) \cup Range(exLog.s3_listing)}
SelectedNames ==
    {p.name : p \in PathSet(exLog.read)} \cup {k.name : k \in Range(exLog.attempted)}

\* C4: the files resolved for extraction never hold both a local file and a
\* downloaded remote file of the same base name, and no remote key whose base
\* name exists locally is downloaded, whatever the order of the listings.
C4_LocalCopyPreferred ==
    exLog.n > 0 =>
        /\ \A p, q \in PathSet(exLog.all_files) \cup PathSet(exLog.read) :
              (p.dir = LocalDir /\ q.dir = TempDir) => p.name # q.name
        /\ \A k \in Range(exLog.attempted) : k.name \notin localFiles

C4_Witness ==
    /\ exLog.n > 0
    /\ exLog.mode = "range"
    /\ \E k \in Range(exLog.filtered_s3) :
          /\ k.name \in {p.name : p \in Range(exLog.filtered_local)}
          /\ k # exLog.s3_listing[1]
    /\ \E q \in PathSet(exLog.all_files) : q.dir = TempDir

\* C5: extract_by_date_range(start, end) selects a file exactly when its name
\* carries an 8-digit date token d with start <= d <= end; a file without
\* such a token is never selected by a date-ranged extraction and is always
\* selected by an all-data extraction.
C5_SelectedIffTokenInRange ==
    /\ exLog.mode = "range" =>
          \A f \in CandidateNames \cup SelectedNames :
              f \in SelectedNames <=> CarriesTokenIn(f, exLog.start, exLog.end)
    /\ exLog.mode = "all" =>
          \A f \in CandidateNames : f \in SelectedNames

\* C10: when the download of a remote file fails the file is skipped, every
\* other selected local and remote file is still read, and the call does not
\* raise.
C10_FailedDownloadSkipped ==
    (exLog.n > 0 /\ Len(exLog.failed) > 0) =>
        /\ ~exLog.raised
        /\ \A f \in Range(exLog.filtered_local) : f \in PathSet(exLog.read)
        /\ \A k \in Range(exLog.attempted) :
              IF k \notin Range(exLog.failed)
              THEN [dir |-> TempDir, name |-> k.name] \in PathSet(exLog.read)
              ELSE (\A o \in Range(exLog.attempted) :
                        o.name = k.name => o \in Range(exLog.failed))
                   => [dir |-> TempDir, name |-> k.name] \notin PathSet(exLog.read)

C10_Witness ==
    /\ exLog.n > 0
    /\ exLog.mode = "range"
    /\ Len(exLog.failed) = 1
    /\ Len(exLog.attempted) = 2
    /\ Len(exLog.filtered_local) > 0
    /\ Len(exLog.read) = Len(exLog.filtered_local) + 1

(***************************************************************************)
(* Collector claims                                                        *)
(***************************************************************************)
\* C6: the page loop sends at most max_pages requests, none after the first
\* page of fewer than 150 records or the first failed or empty page, never
\* asks a page twice, and ends in every case.
C6_Bounded ==
    /\ Len(cRequests) <= cRun.max_pages
    /\ \A i \in 1..Len(cRequests) : cRequests[i].page = i
    /\ \A i \in 1..(Len(cRequests) - 1) : cRequests[i].nb = PerPage
    /\ (cPc = "loop" /\ Len(cRequests) > 0) =>
          cRequests[Len(cRequests)].nb = PerPage

C7_SkipsWhenCollectedToday ==
    cRun.entry = "collect_all_jobs" =>
        /\ (~cRun.force_collect /\ (cRun.hadLocal \/ cRun.hadRemote)) =>
              /\ cRequests = <<>>
              /\ cPc = "done"
              /\ cReturn.files # {}
              /\ \A f \in cReturn.files : f \in localFiles \cup s3Keys
        /\ (cRun.force_collect /\ cRun.tokenOk /\ cRun.max_pages > 0
               /\ cPc = "done") => Len(cRequests) > 0

(***************************************************************************)
(* Orchestrator claims                                                     *)
(***************************************************************************)
StageRank(stage) ==
    CASE stage = "extraction" -> 1
      [] stage = "normalization" -> 2
      [] stage = "tagging" -> 3
      [] stage = "loading" -> 4

\* failures of one record or one batch file
Absorbed == {"bad_record", "bad_batch_file"}

\* C8: in a full run the stages run in the order extraction, normalization,
\* tagging, loading, done, and the failure of a single record or of a single
\* batch file never takes the run to the failed state.
C8_OrderedAndRecordFailuresAbsorbed ==
    rArgs.mode = "full" =>
        /\ \A i, j \in 1..Len(rTrace) :
              i < j => StageRank(rTrace[i]) < StageRank(rTrace[j])
        /\ rPc = "failed" => ~(rCause # {} /\ rCause \subseteq Absorbed)

\* C9: the exit code is not 0 whenever a fatal condition occurred (no raw
\* batch, no database), and is 0 only when the stages ran to the end without
\* a failure.
C9_ExitCodeTellsFailure ==
    rPc \in {"done", "failed"} =>
        /\ rCause \cap {"no_batches", "no_db"} # {} => rExit # 0
        /\ rExit = 0 => rCause \subseteq Absorbed

(***************************************************************************)
(* Chunked-insert claims                                                   *)
(***************************************************************************)
\* the chunks of the last call, those that failed and those persisted
CallChunks == 1..chunks_of(kLog.n)
CallFailed == kLog.failing \cap CallChunks
Persisted == IF kLog.fn = "load_job_skills" THEN kSkills ELSE kJobs

\* C11: when the insert of one chunk of 100 rows fails, the loader goes on
\* with the following chunks: the rows of every other chunk are persisted
\* and counted in the value returned.
C11_OtherChunksPersisted ==
    (kLog.fn # "none" /\ CallFailed # {}) =>
        /\ Persisted = CallChunks \ CallFailed
        /\ kLog.ret = rows_in(kLog.n, CallChunks \ CallFailed)

(***************************************************************************)
(* Atomicity of the loads                                                  *)
(***************************************************************************)
\* a loader call has just returned
LoadReturned == loadLog'.n = loadLog.n + 1

\* C12: after a load call, successful or failed, no posting is partially
\* persisted: the rows stored before are untouched, every row the call added
\* holds all the loaded columns, a successful load has stored every posting
\* of its batch, and a load that fails leaves no row of it committed.
C12_NoPartialLoad ==
    [][LoadReturned =>
         /\ Len(rows') >= Len(rows)
         /\ SubSeq(rows', 1, Len(rows)) = rows
         /\ \A i \in (Len(rows) + 1)..Len(rows') :
               /\ rows'[i].id \in DistinctIds(loadLog'.df)
               /\ rows'[i].cols = loadLog'.cols \cap tableCols
         /\ (loadLog'.fn = "load_jobs_to_database" /\ loadLog'.ok) =>
               DistinctIds(loadLog'.df) \subseteq RowIds(rows')
         /\ ~loadLog'.ok => (rows' = rows /\ jobsRows' = jobsRows)
         /\ \A i \in 1..Len(jobsRows') :
               \/ i <= Len(jobsRows) /\ jobsRows'[i] = jobsRows[i]
               \/ /\ jobsRows'[i].rev = loadLog'.n
                  /\ \E k \in 1..Len(loadLog'.urls) :
                        loadLog'.urls[k] = jobsRows'[i].url
    ]_vars

\* a load of two new postings that failed, into a table that holds a row
C12_Witness ==
    /\ loadLog.fn = "load_jobs_to_database"
    /\ ~loadLog.ok
    /\ Cardinality(DistinctIds(loadLog.df) \ loadLog.preIds) = 2
    /\ tableExists /\ "id" \in tableCols
    /\ Len(rows) = 1

\* C20: a load of new postings into a table that exists with a column set
\* different from the prepared one, with no database error injected, is not
\* aborted: it succeeds, stores every new posting with exactly the columns
\* present in both the prepared data and the table, and logs the mismatch.
C20_SchemaMismatchTolerated ==
    [][\A df \in DataFrames :
          (/\ LoadJobsToDatabase(df, "none")
           /\ tableExists /\ tableCols # df.cols
           /\ DistinctIds(df.ids) \ RowIds(rows) # {})
          => /\ loadLog'.ok
             /\ RowIds(rows') = RowIds(rows) \cup DistinctIds(df.ids)
             /\ \A i \in (Len(rows) + 1)..Len(rows') :
                   rows'[i].cols = df.cols \cap tableCols
             /\ loadLog'.warned
    ]_vars

(***************************************************************************)
(* Claims about the field normalizers (SpecNorm)                           *)
(***************************************************************************)
\* the normalizer of the recorded call, applied to the value it returned
Reapplied ==
    CASE nFn = "categorize_contract_type" -> categorize_contract_type(Str(nOut))
      [] nFn = "normalize_contract_type" -> normalize_contract_type(Str(nOut), nIn[2])
      [] nFn = "normalize_location" -> normalize_location(Str(nOut))
      [] nFn = "extract_experience_level" -> extract_experience_level(Str(nOut))

StringNormalizers ==
    {"categorize_contract_type", "normalize_contract_type", "normalize_location",
     "extract_experience_level"}

\* C13: for every raw contract-type, location and experience input, applying
\* the normalizer to its own output gives the same result as applying it
\* once: f(f(x)) = f(x).
C13_Idempotent ==
    nFn \in StringNormalizers => Reapplied = nOut

\* the text a contract normalizer matched its keywords against
MatchedText ==
    IF nFn = "normalize_contract_type" THEN combined_text(nIn[1], nIn[2])
    ELSE IF is_str(nIn[1]) THEN lower(nIn[1].s) ELSE ""

StudentWords == <<"stage", "apprentissage">>
WorkingTimeWords == <<"temps plein", "temps partiel">>
OtherContractWords == <<"cdi", "cdd", "interim", "intérim", "freelance">>
StudentContracts == {"INTERNSHIP", "APPRENTICESHIP", "STAGE", "ALTERNANCE"}

\* C14: a text (raw contract text plus title) that holds an internship or
\* apprenticeship keyword and a full-time or part-time keyword, and names no
\* other contract, is classified as internship or apprenticeship, by either
\* contract normalizer.
C14_StudentContractBeforeWorkingTime ==
    (/\ nFn \in {"normalize_contract_type", "categorize_contract_type"}
     /\ AnyIn(MatchedText, StudentWords)
     /\ AnyIn(MatchedText, WorkingTimeWords)
     /\ ~AnyIn(MatchedText, OtherContractWords))
    => nOut \in StudentContracts

StandardContractTypes ==
    {"CDI", "CDD", "INTERNSHIP", "APPRENTICESHIP", "FREELANCE", "INTERIM",
     "FULL_TIME", "PART_TIME", "OTHER"}

\* C15: for every input, missing, non-string and unmatched text included,
\* the contract type a contract normalizer returns is one of CDI, CDD,
\* INTERNSHIP, APPRENTICESHIP, FREELANCE, INTERIM, FULL_TIME, PART_TIME,
\* OTHER, and "Stage de 6 mois" gives INTERNSHIP.
C15_ContractTypeInEnumeration ==
    nFn \in {"normalize_contract_type", "categorize_contract_type"}
    => /\ nOut \in StandardContractTypes
       /\ nIn[1] = Str("Stage de 6 mois") => nOut = "INTERNSHIP"

\* the text extract_salary_info searches, and the first number it parses
SalaryText == remove_chars(strip(lower(nIn[1].s)), {EuroSign, "$", "£"})
ParsedAsRange == range_search(SalaryText) # 0
FirstNumberAt ==
    IF ParsedAsRange THEN range_search(SalaryText) ELSE number_search(SalaryText)
FirstNumber ==
    IF ParsedAsRange THEN range_at(SalaryText, FirstNumberAt)[1]
    ELSE SubSeq(SalaryText, FirstNumberAt, number_end(SalaryText, FirstNumberAt) - 1)
\* a k right after the number that starts at i
KAfter(i) == Ch(SalaryText, spaces_end(SalaryText, number_end(SalaryText, i))) = "k"
\* the first number carries the suffix; in a range "30-40k" the suffix of
\* the upper bound is read as the suffix of both
SecondNumberAt ==
    spaces_end(SalaryText,
               spaces_end(SalaryText, number_end(SalaryText, FirstNumberAt)) + 1)
CarriesK ==
    KAfter(FirstNumberAt) \/ (ParsedAsRange /\ KAfter(SecondNumberAt))

\* C18: the lower salary bound is the parsed number times 1000 when the
\* number carries a "k" suffix, and the parsed number itself when it
\* carries none.
C18_KSuffixMultiplies ==
    (nFn = "extract_salary_info" /\ is_str(nIn[1]) /\ nOut.min_salary # NoNumber)
    => nOut.min_salary =
          IF CarriesK THEN 1000 * float_of(FirstNumber) ELSE float_of(FirstNumber)

\* the experience field of the recorded call is a text to be parsed
ExperienceGiven ==
    /\ nFn = "extract_experience"
    /\ is_str(nIn[1]) /\ truthy(nIn[1])
    /\ lower(nIn[1].s) # "expérience non spécifiée"
ExperienceText == lower(nIn[1].s)

\* C19: explicit years come before level keywords, and level keywords before
\* the title: an experience text with explicit years gives the result of the
\* years, whatever level keyword it also holds, and a call in which neither
\* years, nor a level keyword, nor the title match gives NOT_SPECIFIED.
C19_YearsThenLevelThenTitle ==
    ExperienceGiven
    => /\ years_of(ExperienceText).min_years # NoYears
          => nOut = years_of(ExperienceText)
       /\ (/\ years_of(ExperienceText).min_years = NoYears
           /\ level_words_first(ExperienceText).level = ""
           /\ title_inference(nIn[2]).level = AllLevels)
          => nOut.level = "NOT_SPECIFIED"

\* C16: every field normalizer is total: whatever value it is called with,
\* None, non-string values and malformed structures included, the call
\* returns a value and no exception leaves it.
C16_NormalizersNeverRaise ==
    nFn # "none" => ~nRaised

(***************************************************************************)
(* Claim about the credentials (SpecCreds)                                 *)
(***************************************************************************)
\* C17: a call that needs object-store or database credentials which the
\* configuration does not define reports the condition and fails; it does
\* not return normally on built-in credentials or on local data only.
C17_MissingCredentialsAreFatal ==
    (gLog.fn # "none" /\ gLog.missing # {}) => (gLog.reported /\ gLog.failed)

(***************************************************************************)
(* Specification of a loading run and its connections                      *)
(***************************************************************************)
InitConn ==
    /\ \/ /\ tableExists = FALSE
          /\ tableCols = {}
          /\ tablePK = FALSE
          /\ rows = <<>>
       \/ \E s \in ExistingSchemas :
             /\ tableExists = TRUE
             /\ tableCols = s.cols
             /\ tablePK = s.pk
             /\ rows \in {<<>>, <<[id |-> "j1", cols |-> s.cols]>>}
    /\ jobsSchema = "absent"
    /\ jobsRows = <<>>
    /\ loadLog = NoCall
    /\ FsIdle
    /\ ColIdle
    /\ RunIdle
    /\ CredIdle
    /\ NormIdle
    /\ ChunkIdle
    /\ dPc = "start"
    /\ dArgs \in [data : DataFrames, skip_load : BOOLEAN, skip_skills : BOOLEAN]
    /\ dConns = <<>>
    /\ dLog = NoRunLog

NextConn ==
    \/ \E connects \in BOOLEAN :
          EnterRunLoading(connects) /\ UNCHANGED <<fsVars, colVars, runVars, chunkVars, normVars, credVars>>
    \/ \E fault \in CreateFaults :
          CreateTableStage(fault) /\ UNCHANGED <<fsVars, colVars, runVars, chunkVars, normVars, credVars>>
    \/ \E fault \in LoadFaults :
          LoadStage(fault) /\ UNCHANGED <<fsVars, colVars, runVars, chunkVars, normVars, credVars>>
    \/ \E outcome \in SkillsOutcomes :
          SkillsStage(outcome) /\ UNCHANGED <<fsVars, colVars, runVars, chunkVars, normVars, credVars>>
    \/ \E collected \in Collections :
          ReturnFromRunLoading(collected) /\ UNCHANGED <<fsVars, colVars, runVars, chunkVars, normVars, credVars>>

SpecConn == InitConn /\ [][NextConn]_vars

\* C21: in every run that reaches the load stage exactly one database
\* connection is opened, it serves both the existing-id query and the
\* inserts, and it is closed when the run has ended, on every path (early
\* abort and load failure included)
C21_OneConnectionOpenedAndClosed ==
    (dPc = "returned" /\ dLog.connected)
    => /\ Len(dConns) = 1
       /\ (dLog.select # 0 /\ dLog.insert # 0) => dLog.select = dLog.insert
       /\ \A i \in 1..Len(dConns) : ~dConns[i].open

(***************************************************************************)
(* Specification of consecutive extract_data runs over one reference       *)
(***************************************************************************)
InitRerun ==
    /\ localFiles \in {S \in SUBSET Names : Cardinality(S) <= MaxLocal}
    /\ s3Keys \in {S \in SUBSET S3KeySpace : Cardinality(S) <= MaxRemote}
    /\ tempFiles = {}
    /\ exLog = NoExtraction
    /\ DbIdle
    /\ ColIdle
    /\ RunIdle
    /\ ConnIdle
    /\ CredIdle
    /\ NormIdle
    /\ ChunkIdle

NextRerun ==
    \E all_data \in BOOLEAN, range \in DateRanges, include_s3 \in BOOLEAN, s3Up \in BOOLEAN :
       ExtractData(all_data, range[1], range[2], include_s3, s3Up)
          /\ UNCHANGED <<dbVars, colVars, runVars, chunkVars, normVars, credVars, connVars>>

SpecRerun == InitRerun /\ [][NextRerun]_vars

\* C22: after extract_data has returned, on every path (data extracted or
\* nothing extracted), nothing is left of the temporary directory of the
\* files the run downloaded from remote storage
C22_TempDirectoryRemoved ==
    (exLog.fn = "extract_data" /\ downloaded_keys(exLog) # {}) => tempFiles = {}

\* C23: after a run has fetched a batch file from remote storage, a later run
\* over the same reference finds a local copy with the same base file name
\* and does not download that file again
C23_FetchedFilesAreCached ==
    (exLog.fn = "extract_data" /\ exLog.n >= 2)
    => \A k \in exLog.earlier :
          /\ basename(k) \in localFiles
          /\ k \notin Range(exLog.attempted)

(***************************************************************************)
(* Specification of a long collection: collect_all_jobs over enough pages  *)
(* for the token to be renewed; every page is saved and nothing uploaded   *)
(***************************************************************************)
InitRefresh ==
    /\ localFiles \in {{}, {BatchFile("all", Today, 0, 1)}}
    /\ s3Keys = {}
    /\ tempFiles = {}
    /\ exLog = NoExtraction
    /\ ColIdle
    /\ DbIdle
    /\ RunIdle
    /\ ConnIdle
    /\ CredIdle
    /\ NormIdle
    /\ ChunkIdle

LongPageSteps ==
    \E nb \in Responses, refreshOk \in BOOLEAN :
        PageStep(nb, TRUE, TRUE, refreshOk) /\ UNCHANGED <<dbVars, runVars, chunkVars, normVars, credVars, connVars>>

NextRefresh ==
    \/ \E max_pages \in 0..LongRun, force_collect \in BOOLEAN, tokenOk \in BOOLEAN :
          StartCollectAll(max_pages, FALSE, force_collect, FALSE, tokenOk)
             /\ UNCHANGED <<dbVars, runVars, chunkVars, normVars, credVars, connVars>>
    \/ LongPageSteps

SpecRefresh == InitRefresh /\ [][NextRefresh]_vars /\ WF_vars(LongPageSteps)

\* pagination goes on after request i: another request follows it or is
\* about to be sent
Continues(i) == i < Len(cRequests) \/ cPc = "loop"

\* the token the requests are sent with changes only by a renewal
TokenKeptUnlessRenewed ==
    \A i \in 1..Len(cRequests) :
       LET next == IF i < Len(cRequests) THEN cRequests[i + 1].token ELSE cToken
       IN next = cRequests[i].token
                    + (IF cRequests[i].refresh = "renewed" THEN 1 ELSE 0)

\* a failed renewal does not end the collection: the next page is requested
\* unless max_pages is reached
FailedRefreshGoesOn ==
    \A i \in 1..Len(cRequests) :
       (cRequests[i].refresh = "failed" /\ i < cRun.max_pages) => Continues(i)

\* C24 as stated: a token refresh is attempted after every page whose number
\* is a multiple of 10 and after which pagination continues, and at no other
\* point; a failed refresh keeps the previous token and the collection
\* continues
C24_Original ==
    cRun.entry = "collect_all_jobs"
    => /\ \A i \in 1..Len(cRequests) :
            cRequests[i].refresh # "none"
               <=> (cRequests[i].page % RefreshEvery = 0 /\ Continues(i))
       /\ TokenKeptUnlessRenewed
       /\ FailedRefreshGoesOn

\* C24 amended: a token refresh is attempted after every page whose number is
\* a multiple of 10 and that returned a full page of 150 offers (the loop was
\* not left by a break), also when that page is the last one max_pages
\* allows, and at no other point; a failed refresh keeps the previous token
\* and the collection continues
C24_RefreshAfterEveryTenthFullPage ==
    cRun.entry = "collect_all_jobs"
    => /\ \A i \in 1..Len(cRequests) :
            cRequests[i].refresh # "none"
               <=> (cRequests[i].page % RefreshEvery = 0
                       /\ cRequests[i].nb = PerPage)
       /\ TokenKeptUnlessRenewed
       /\ FailedRefreshGoesOn

C24_Witness ==
    /\ cRun.entry = "collect_all_jobs"
    /\ Len(cRequests) > RefreshEvery
    /\ cRequests[RefreshEvery].refresh = "failed"
    /\ cRequests[RefreshEvery + 1].token = cRequests[RefreshEvery].token

\* C25: the list of files handed to record extraction never holds two
\* entries with the same base file name, also when the bucket holds several
\* keys with one base file name under the listed prefix
C25_DistinctBaseNames ==
    exLog.n > 0
    => \A i, j \in 1..Len(exLog.all_files) :
          i # j => basename(exLog.all_files[i]) # basename(exLog.all_files[j])

\* C26: over any sequence of create_jobs_table and load_jobs_to_database
\* calls, a row enters the target table only with the id of a posting passed
\* to the load call that inserts it: schema creation itself adds no row
C26_RowsComeFromLoads ==
    [][RowIds(rows') \ RowIds(rows)
          \subseteq (IF loadLog' # loadLog /\ loadLog'.fn = "load_jobs_to_database"
                     THEN Range(loadLog'.df) ELSE {})]_vars

\* C27: whenever salary extraction returns both a minimum and a maximum, the
\* minimum is at most the maximum, also for ranges in which the "k"
\* conversion applies to one or both bounds
C27_MinimumAtMostMaximum ==
    (/\ nFn = "extract_salary_info"
     /\ nOut.min_salary # NoNumber
     /\ nOut.max_salary # NoNumber) => nOut.min_salary <= nOut.max_salary

\* the texts of the model that state a single number of years, with that
\* number
SingleYears == [t \in {Str("5 ans"), Str("10 ans")} |->
                   IF t = Str("5 ans") THEN 5 ELSE 10]

\* C28: whenever experience extraction returns both min_years and max_years,
\* min_years <= max_years; and a text stating a single number of years (a
\* two-digit "N ans" included) yields that number as min_years and no
\* max_years
C28_YearsOrderedAndSingleNumberKept ==
    nFn = "extract_experience"
    => /\ (nOut.min_years # NoYears /\ nOut.max_years # NoYears)
             => nOut.min_years <= nOut.max_years
       /\ nIn[1] \in DOMAIN SingleYears
             => /\ nOut.min_years = SingleYears[nIn[1]]
                /\ nOut.max_years = NoYears

(***************************************************************************)
(* extract_jobs_to_dataframe(file_list) (api/extraction.py).  A batch file *)
(* is the list of the ids of its offers, NoId for an offer without an id   *)
(* (or with an empty one), or NullResults for a file whose "resultats" is  *)
(* null; an offer is known by its id, the file it stands in and its place  *)
(* in that file.                                                           *)
(***************************************************************************)
NoId == "None"
OfferIds == {"j1", "j2", NoId}
NullResults == <<"null">>
BatchContents == SeqsUpTo(OfferIds, MaxOffers) \cup {NullResults}
FileLists == SeqsUpTo(BatchContents, MaxListed)

\* extract_job_offers(file_path) for every file of the list from f on
RECURSIVE file_offers(_, _)
file_offers(file_list, f) ==
    IF f > Len(file_list) THEN <<>>
    ELSE (IF file_list[f] = NullResults THEN <<>>
          ELSE [k \in 1..Len(file_list[f]) |->
                   [id |-> file_list[f][k], file |-> f, pos |-> k]])
         \o file_offers(file_list, f + 1)

\* the loop over the offers: if offer_id and offer_id not in job_ids
RECURSIVE all_offers(_, _)
all_offers(offers, job_ids) ==
    IF Len(offers) = 0 THEN <<>>
    ELSE LET offer == Head(offers) IN
         IF offer.id # NoId /\ offer.id \notin job_ids
         THEN <<offer>> \o all_offers(Tail(offers), job_ids \cup {offer.id})
         ELSE all_offers(Tail(offers), job_ids)

\* the value returned: None without files or without offers kept,
\* otherwise the DataFrame of the offers kept; len(offers) raises TypeError
\* in extract_job_offers for a file whose "resultats" is null
extract_jobs_to_dataframe(file_list, relisting) ==
    LET read == files_read(file_list, relisting)
        kept == all_offers(file_offers(read, 1), {})
    IN IF \E f \in 1..Len(read) : read[f] = NullResults
       THEN [ret |-> "raised", kept |-> <<>>]
       ELSE IF Len(read) = 0 \/ Len(kept) = 0
       THEN [ret |-> "None", kept |-> <<>>]
       ELSE [ret |-> "df", kept |-> kept]

ExtractJobsToDataframe(file_list, relisting) ==
    LET out == extract_jobs_to_dataframe(file_list, relisting) IN
    /\ nFn = "none"
    /\ nFn' = "extract_jobs_to_dataframe"
    /\ nIn' = <<file_list, relisting>>
    /\ nOut' = out
    /\ nRaised' = (out.ret = "raised")

NextOffers ==
    \E file_list \in FileLists :
       \E relisting \in (IF Len(file_list) = 0 THEN FileLists ELSE {<<>>}) :
          ExtractJobsToDataframe(file_list, relisting) /\ UNCHANGED <<dbVars, fsVars, colVars, runVars, chunkVars, credVars, connVars>>

SpecOffers == InitNorm /\ [][NextOffers]_vars

\* the offers of the files the call read, in file order
OffersRead == file_offers(files_read(nIn[1], nIn[2]), 1)

\* offer a stands before offer b in file order
Before(a, b) == a.file < b.file \/ (a.file = b.file /\ a.pos < b.pos)

\* C29: for any ordered list of batch files extract_jobs_to_dataframe
\* returns records with pairwise distinct ids, keeping for each id its first
\* occurrence in file order (a file earlier in the list wins over a later
\* one), and drops every record that has no id
C29_FirstOccurrencePerId ==
    nFn = "extract_jobs_to_dataframe"
    => LET kept == nOut.kept IN
       /\ \A i, j \in 1..Len(kept) : i # j => kept[i].id # kept[j].id
       /\ \A i \in 1..Len(kept) :
             /\ kept[i] \in Range(OffersRead)
             /\ kept[i].id # NoId
             /\ \A o \in Range(OffersRead) :
                   o.id = kept[i].id => (o = kept[i] \/ Before(kept[i], o))
       /\ \A o \in Range(OffersRead) :
             o.id # NoId => \E i \in 1..Len(kept) : kept[i].id = o.id
       /\ \A i, j \in 1..Len(kept) : i < j => Before(kept[i], kept[j])

\* C30: for every combination of --mode, --input-file and --skip-db each
\* stage that runs works on a dataset produced or loaded earlier in the same
\* run: no stage reads an undefined dataset, and when --input-file names a
\* file, that file is the data the transformation works on
C30_StagesReadDefinedData ==
    rArgs.entry \in {"scripts_main", "root_main"}
    => /\ "undefined" \notin rCause
       /\ rSource # "undefined"
       /\ (rArgs.input_file = "present" /\ rSource # "none")
             => rSource = "input_file"

====
